---- MODULE Spec2Model ----
(***************************************************************************)
(* Model of the discrete-sequence transform engine (src/2): the batch      *)
(* operators of sequence.c, the streaming state machine seq_stream_init /  *)
(* seq_stream_step / seq_stream_dispose, the capability classifier         *)
(* seq_online_capable, and the streaming driver cli_run_stream of cli.c.   *)
(*                                                                         *)
(* Also the sequence-combination library (src/3): the sliding window of   *)
(* seq.c and the operators of ops.c; and the SignalSeq container of the    *)
(* interactive program src/1/main.c.                                       *)
(*                                                                         *)
(* Samples (C double) are modelled by the integers of a binary floating-   *)
(* point format: MantBits significand bits, round to nearest with ties to  *)
(* even, unbounded exponent range above the unit 1 (the smallest positive  *)
(* value).  Every arithmetic operation of the code is the exact operation  *)
(* followed by that rounding, as in IEEE 754 double arithmetic.            *)
(***************************************************************************)
EXTENDS Integers, Sequences, FiniteSets, TLC

(* ------------------------------------------------------------------ *)
(* Bounds of the model                                                *)
(* ------------------------------------------------------------------ *)
MaxLen == 3
MaxParam == 3
MaxInits == 2
MantBits == 3
MaxCap == 3
MaxPush == 4
\* Width in bits of size_t.
SizeBits == 4
\* Width in bits of int.
IntBits == 6
\* Longest SignalSeq that is still appended to.
MaxAppend == 9

Samples == {1, 2}
Fills == {0, 5}
Params == 0..MaxParam

(* ------------------------------------------------------------------ *)
(* seq_err_t and seq_op_type (sequence.h)                             *)
(* ------------------------------------------------------------------ *)
SEQ_OK == 0
SEQ_ERR_ARG == 1
SEQ_ERR_NOMEM == 2
SEQ_ERR_STATE == 3
SEQ_ERR_UNSUPPORTED == 4

SEQ_OP_PAD_FRONT == 0
SEQ_OP_PAD_BACK == 1
SEQ_OP_DELAY == 2
SEQ_OP_ADVANCE == 3
SEQ_OP_REVERSE == 4
SEQ_OP_UPSAMPLE == 5
SEQ_OP_DOWNSAMPLE == 6
SEQ_OP_DIFF == 7
SEQ_OP_CUMSUM == 8

\* The nine enumerators, and one integer outside the enumeration (the
\* "default:" branches of the switches).
NineOps == SEQ_OP_PAD_FRONT..SEQ_OP_CUMSUM
OpValues == SEQ_OP_PAD_FRONT..(SEQ_OP_CUMSUM + 1)

\* Values of the int flag infinite_input: zero and two non-zero values.
InfFlags == {0, 1, -1}

NULL == 0

(* ------------------------------------------------------------------ *)
(* double arithmetic                                                  *)
(* ------------------------------------------------------------------ *)
RECURSIVE Pow2(_)
Pow2(n) == IF n = 0 THEN 1 ELSE 2 * Pow2(n - 1)

Abs(n) == IF n < 0 THEN -n ELSE n

\* The exponent e >= 0 of the binade of n/d: the least e with
\* n/d < 2^(MantBits + e).
RECURSIVE FloatExp(_, _, _)
FloatExp(n, d, e) ==
    IF n \div d < Pow2(MantBits + e) THEN e ELSE FloatExp(n, d, e + 1)

\* n/d (n >= 0, d > 0) rounded to the nearest representable value, ties to
\* the even significand.
RoundMag(n, d) ==
    LET e == FloatExp(n, d, 0)
        u == d * Pow2(e)
        f == n \div u
        r == n % u
    IN Pow2(e) * (IF 2 * r < u THEN f
                  ELSE IF 2 * r > u THEN f + 1
                  ELSE IF f % 2 = 0 THEN f ELSE f + 1)

fround(n, d) ==
    IF (n < 0) /= (d < 0) THEN -RoundMag(Abs(n), Abs(d))
    ELSE RoundMag(Abs(n), Abs(d))

fadd(a, b) == fround(a + b, 1)
fsub(a, b) == fround(a - b, 1)
fmul(a, b) == fround(a * b, 1)
fdiv(a, b) == fround(a, b)

\* sqrt(v) for v >= 0, correctly rounded: r is the integer part of the
\* root, f the representable value at or below it, u the spacing there.
fsqrt(v) ==
    LET r == CHOOSE k \in 0..v : k * k <= v /\ (k + 1) * (k + 1) > v
        e == FloatExp(r, 1, 0)
        u == Pow2(e)
        f == (r \div u) * u
    IN IF f * f = v THEN f
       ELSE IF 4 * v < (2 * f + u) * (2 * f + u) THEN f
       ELSE IF 4 * v > (2 * f + u) * (2 * f + u) THEN f + u
       ELSE IF (f \div u) % 2 = 0 THEN f ELSE f + u

\* The sum of s[1..k], accumulated from the left as the loops of the code do.
RECURSIVE fsum(_, _)
fsum(s, k) == IF k = 0 THEN 0 ELSE fadd(fsum(s, k - 1), s[k])

(* ------------------------------------------------------------------ *)
(* Batch operators: each returns the contents of dst on SEQ_OK.       *)
(* Sequences are 1-based here; C index i is TLA+ index i+1.           *)
(* ------------------------------------------------------------------ *)
seq_pad_front(src, zeros) ==
    [k \in 1..(Len(src) + zeros) |-> IF k <= zeros THEN 0 ELSE src[k - zeros]]

seq_delay(src, delay, fill) ==
    [k \in 1..Len(src) |-> IF (k - 1) < delay THEN fill ELSE src[k - delay]]

seq_upsample(src, factor) ==
    [k \in 1..(Len(src) * factor) |->
        IF (k - 1) % factor = 0 THEN src[((k - 1) \div factor) + 1] ELSE 0]

seq_downsample(src, factor) ==
    [k \in 1..(Len(src) \div factor) |-> src[(k - 1) * factor + 1]]

\* Mutant: the first output is the difference to a sample that does
\* not exist, taken as the first sample itself.
seq_diff_FirstZero(src) ==
    [k \in 1..Len(src) |-> IF k = 1 THEN 0 ELSE fsub(src[k], src[k - 1])]

seq_diff(src) ==
    [k \in 1..Len(src) |-> IF k = 1 THEN src[1] ELSE fsub(src[k], src[k - 1])]

RECURSIVE cumsum_acc(_, _)
cumsum_acc(src, k) == IF k = 0 THEN 0 ELSE fadd(cumsum_acc(src, k - 1), src[k])

seq_cumsum(src) == [k \in 1..Len(src) |-> cumsum_acc(src, k)]

\* Mutant: the loop stops before it copies the first sample to the end.
seq_reverse_StopsEarly(src) ==
    [k \in 1..Len(src) |-> IF k = Len(src) THEN 0 ELSE src[Len(src) - (k - 1)]]

seq_reverse(src) == [k \in 1..Len(src) |-> src[Len(src) - (k - 1)]]

\* A batch call "f(src, .., dst)": dst is the sequence of its samples
\* (data NULL and length 0: << >>).  seq_prepare_output keeps a dst of the
\* wanted length and otherwise frees it and allocates a zeroed one.
seq_prepare_output(dst, length, mem_ok) ==
    IF Len(dst) = 0 \/ Len(dst) /= length
    THEN IF length = 0 THEN [rc |-> SEQ_OK, dst |-> << >>]
         ELSE IF ~mem_ok THEN [rc |-> SEQ_ERR_NOMEM, dst |-> << >>]
         ELSE [rc |-> SEQ_OK, dst |-> [k \in 1..length |-> 0]]
    ELSE [rc |-> SEQ_OK, dst |-> dst]

\* The part of a batch operator after its argument checks: prepare dst
\* for length samples, then store the result.
BatchStore(result, length, dst, mem_ok) ==
    LET P == seq_prepare_output(dst, length, mem_ok)
    IN IF P.rc /= SEQ_OK THEN P ELSE [rc |-> SEQ_OK, dst |-> result]

FactorRejected(factor) == factor = 0

\* size_t arithmetic: values are taken modulo 2^SizeBits.
SizeMod == Pow2(SizeBits)

SizeWrap(v) == v % SizeMod

\* The storage of dst during a call: data are the allocated samples, oob
\* the indices i >= length of stores "dst->data[i] = v" (a store outside
\* the allocation: undefined behaviour).
Mem(data) == [data |-> data, oob |-> {}]

Store(m, i, v) ==
    IF i < Len(m.data) THEN [m EXCEPT !.data[i + 1] = v]
    ELSE [m EXCEPT !.oob = @ \cup {i}]

\* src->data[j] while the storage of dst is m: when dst is the object src
\* itself the read sees the stores already made.
SrcLoad(src, m, alias, j) == IF alias THEN m.data[j + 1] ELSE src[j + 1]

BatchRet(rc, data, oob) == [rc |-> rc, dst |-> data, oob |-> oob]

\* The return of a batch operator whose seq_prepare_output gave P and
\* whose loops left the storage m.
BatchDone(P, m) ==
    IF P.rc /= SEQ_OK THEN BatchRet(P.rc, P.dst, {})
    ELSE BatchRet(SEQ_OK, m.data, m.oob)

\* In each operator, Z[k] and C[k] are the storage of dst after k
\* iterations of its first and second loop.

\* seq_pad_front(src, zeros, dst)
BatchPadFront(src, zeros, dst, mem_ok) ==
    LET out_len == SizeWrap(Len(src) + zeros)
        P == seq_prepare_output(dst, out_len, mem_ok)
        Z[k \in 0..zeros] ==
            IF k = 0 THEN Mem(P.dst) ELSE Store(Z[k - 1], k - 1, 0)
        C[k \in 0..Len(src)] ==
            IF k = 0 THEN Z[zeros]
            ELSE Store(C[k - 1], SizeWrap(zeros + (k - 1)), src[k])
    IN BatchDone(P, C[Len(src)])

\* seq_pad_back(src, zeros, dst)
BatchPadBack(src, zeros, dst, mem_ok) ==
    LET out_len == SizeWrap(Len(src) + zeros)
        P == seq_prepare_output(dst, out_len, mem_ok)
        C[k \in 0..Len(src)] ==
            IF k = 0 THEN Mem(P.dst) ELSE Store(C[k - 1], k - 1, src[k])
        more == IF out_len > Len(src) THEN out_len - Len(src) ELSE 0
        Z[k \in 0..more] ==
            IF k = 0 THEN C[Len(src)]
            ELSE Store(Z[k - 1], Len(src) + (k - 1), 0)
    IN BatchDone(P, Z[more])

\* seq_delay(src, delay, fill, dst); alias: dst is the object src.
BatchDelay(src, delay, fill, dst, alias, mem_ok) ==
    LET P == seq_prepare_output(IF alias THEN src ELSE dst, Len(src), mem_ok)
        C[k \in 0..Len(src)] ==
            IF k = 0 THEN Mem(P.dst)
            ELSE LET m == C[k - 1]
                     i == k - 1
                 IN Store(m, i, IF i < delay THEN fill
                                ELSE SrcLoad(src, m, alias, i - delay))
    IN BatchDone(P, C[Len(src)])

\* seq_advance(src, advance, fill, dst)
BatchAdvance(src, advance, fill, dst, alias, mem_ok) ==
    LET P == seq_prepare_output(IF alias THEN src ELSE dst, Len(src), mem_ok)
        C[k \in 0..Len(src)] ==
            IF k = 0 THEN Mem(P.dst)
            ELSE LET m == C[k - 1]
                     i == k - 1
                     idx == SizeWrap(i + advance)
                 IN Store(m, i, IF idx < Len(src)
                                THEN SrcLoad(src, m, alias, idx)
                                ELSE fill)
    IN BatchDone(P, C[Len(src)])

\* seq_reverse(src, dst): i runs up from 0 while j runs down to 0.
BatchReverse(src, dst, alias, mem_ok) ==
    LET P == seq_prepare_output(IF alias THEN src ELSE dst, Len(src), mem_ok)
        C[k \in 0..Len(src)] ==
            IF k = 0 THEN Mem(P.dst)
            ELSE LET m == C[k - 1]
                     i == k - 1
                     j == (Len(src) - 1) - i
                 IN Store(m, i, SrcLoad(src, m, alias, j))
    IN BatchDone(P, C[Len(src)])

\* seq_diff(src, dst)
BatchDiff(src, dst, alias, mem_ok) ==
    LET P == seq_prepare_output(IF alias THEN src ELSE dst, Len(src), mem_ok)
        C[k \in 0..Len(src)] ==
            IF k = 0 THEN Mem(P.dst)
            ELSE LET m == C[k - 1]
                     i == k - 1
                 IN Store(m, i,
                          IF i = 0 THEN SrcLoad(src, m, alias, 0)
                          ELSE fsub(SrcLoad(src, m, alias, i),
                                    SrcLoad(src, m, alias, i - 1)))
    IN BatchDone(P, C[Len(src)])

\* seq_cumsum(src, dst): before iteration i > 0 the variable acc holds
\* the value stored at index i - 1.
BatchCumsum(src, dst, alias, mem_ok) ==
    LET P == seq_prepare_output(IF alias THEN src ELSE dst, Len(src), mem_ok)
        C[k \in 0..Len(src)] ==
            IF k = 0 THEN Mem(P.dst)
            ELSE LET m == C[k - 1]
                     i == k - 1
                     acc == IF i = 0 THEN 0 ELSE m.data[i]
                 IN Store(m, i, fadd(acc, SrcLoad(src, m, alias, i)))
    IN BatchDone(P, C[Len(src)])

\* seq_upsample(src, factor, dst) and seq_downsample(src, factor, dst)
BatchUpsample(src, factor, dst, mem_ok) ==
    IF FactorRejected(factor) THEN BatchRet(SEQ_ERR_ARG, dst, {})
    ELSE LET out_len == SizeWrap(Len(src) * factor)
             P == seq_prepare_output(dst, out_len, mem_ok)
             Z[k \in 0..out_len] ==
                 IF k = 0 THEN Mem(P.dst) ELSE Store(Z[k - 1], k - 1, 0)
             C[k \in 0..Len(src)] ==
                 IF k = 0 THEN Z[out_len]
                 ELSE Store(C[k - 1], SizeWrap((k - 1) * factor), src[k])
         IN BatchDone(P, C[Len(src)])

BatchDownsample(src, factor, dst, mem_ok) ==
    IF FactorRejected(factor) THEN BatchRet(SEQ_ERR_ARG, dst, {})
    ELSE LET out_len == Len(src) \div factor
             P == seq_prepare_output(dst, out_len, mem_ok)
             C[k \in 0..out_len] ==
                 IF k = 0 THEN Mem(P.dst)
                 ELSE Store(C[k - 1], k - 1, src[(k - 1) * factor + 1])
         IN BatchDone(P, C[out_len])

(* ------------------------------------------------------------------ *)
(* seq_online_capable                                                 *)
(* ------------------------------------------------------------------ *)
\* Mutant: advance is reported as streamable on unbounded input.
seq_online_capable_AdvanceStreams(op, infinite_input) ==
    IF infinite_input /= 0
    THEN IF op \in {SEQ_OP_PAD_FRONT, SEQ_OP_DELAY, SEQ_OP_ADVANCE,
                    SEQ_OP_UPSAMPLE, SEQ_OP_DOWNSAMPLE, SEQ_OP_DIFF,
                    SEQ_OP_CUMSUM}
         THEN 1 ELSE 0
    ELSE IF op \in SEQ_OP_PAD_FRONT..SEQ_OP_CUMSUM THEN 1 ELSE 0

seq_online_capable(op, infinite_input) ==
    IF infinite_input /= 0
    THEN CASE op = SEQ_OP_PAD_FRONT -> 1
           [] op = SEQ_OP_DELAY -> 1
           [] op = SEQ_OP_UPSAMPLE -> 1
           [] op = SEQ_OP_DOWNSAMPLE -> 1
           [] op = SEQ_OP_DIFF -> 1
           [] op = SEQ_OP_CUMSUM -> 1
           [] op = SEQ_OP_PAD_BACK -> 0
           [] op = SEQ_OP_ADVANCE -> 0
           [] op = SEQ_OP_REVERSE -> 0
           [] OTHER -> 0
    ELSE CASE op = SEQ_OP_PAD_FRONT -> 1
           [] op = SEQ_OP_PAD_BACK -> 1
           [] op = SEQ_OP_DELAY -> 1
           [] op = SEQ_OP_ADVANCE -> 1
           [] op = SEQ_OP_REVERSE -> 1
           [] op = SEQ_OP_UPSAMPLE -> 1
           [] op = SEQ_OP_DOWNSAMPLE -> 1
           [] op = SEQ_OP_DIFF -> 1
           [] op = SEQ_OP_CUMSUM -> 1
           [] OTHER -> 0

(* ------------------------------------------------------------------ *)
(* The program state                                                  *)
(*   st      the seq_stream_t object                                  *)
(*   heap    the ids of the live malloc'ed delay buffers; the         *)
(*           contents of a buffer are kept in st.buf_data while       *)
(*           st.buf points at it (no other pointer to it exists)      *)
(*   ub      TRUE once free() was given a pointer that is not live    *)
(*   ninit   number of seq_stream_init calls made so far              *)
(*   args    arguments (op, param_main, fill) of the latest init      *)
(*   call    the latest API call and what it returned                 *)
(*   prev    the stream object as the latest step or dispose found it *)
(*   xs      samples of the real-input steps that returned SEQ_OK     *)
(*           since the latest init                                    *)
(*   out     outputs since the latest init, each tagged with the kind *)
(*           of step that produced it ("input", "flush"); the single  *)
(*           entry "lost" once a step signalled an output, or         *)
(*           consumed a sample, with no y to store it in              *)
(*   proto   position of the driver in the "feed every sample, then   *)
(*           flush until no output" protocol                          *)
(*   pc, ret   position in and return value of cli_run_stream         *)
(*   win     the two seq_window_t objects of src/3, the samples       *)
(*           pushed into the first one, and the latest window call    *)
(*   ops     the arguments and the result of the latest call of an    *)
(*           operator of src/3/src/ops.c or of a batch operator       *)
(*   sig     the SignalSeq object of src/1/main.c, its value before   *)
(*           the latest call on it, and that call                     *)
(* ------------------------------------------------------------------ *)
VARIABLES st, heap, ub, ninit, args, call, prev, xs, out, proto, pc, ret,
          win, ops, sig

vars == <<st, heap, ub, ninit, args, call, prev, xs, out, proto, pc, ret,
          win, ops, sig>>

\* A seq_stream_t before any seq_stream_init: the driver never reads it.
StreamBlank ==
    [active |-> 0, op |-> SEQ_OP_PAD_FRONT, param_main |-> 0, param_aux |-> 0,
     fill |-> 0, buf |-> NULL, buf_data |-> << >>, buf_size |-> 0,
     buf_head |-> 0, counter |-> 0,
     remaining |-> 0, last |-> 0, has_last |-> 0, acc |-> 0]

seq_stream_reset(s) ==
    [s EXCEPT !.active = 0, !.op = SEQ_OP_PAD_FRONT, !.param_main = 0,
              !.param_aux = 0, !.fill = 0, !.buf = NULL, !.buf_data = << >>,
              !.buf_size = 0, !.buf_head = 0, !.counter = 0, !.remaining = 0,
              !.last = 0, !.has_last = 0, !.acc = 0]

\* malloc returning the fresh block id, and free(p).
HeapAlloc(h, id) == h \cup {id}

HeapFree(h, p) ==
    IF p = NULL THEN [heap |-> h, ub |-> FALSE]
    ELSE IF p \in h
         THEN [heap |-> h \ {p}, ub |-> FALSE]
         ELSE [heap |-> h, ub |-> TRUE]

InitRet(s, h, rc) == [st |-> s, heap |-> h, rc |-> rc]

(* ------------------------------------------------------------------ *)
(* seq_stream_init, one operator per case of its switch; s is the     *)
(* state after seq_stream_reset and the stores to op and fill.        *)
(* ------------------------------------------------------------------ *)
\* Mutant: the zero counter is not armed.
InitPadFront_NoZeros(s, h, param_main) ==
    InitRet([s EXCEPT !.param_main = param_main, !.active = 1], h, SEQ_OK)

\* Mutant: one zero too few is armed.
InitPadFront_OneFewer(s, h, param_main) ==
    InitRet([s EXCEPT !.param_main = param_main,
                      !.remaining = IF param_main > 0 THEN param_main - 1 ELSE 0,
                      !.active = 1], h, SEQ_OK)

InitPadFront(s, h, param_main) ==
    InitRet([s EXCEPT !.param_main = param_main, !.remaining = param_main,
                      !.active = 1], h, SEQ_OK)

InitDelay(s, h, param_main, fill, id, mem_ok) ==
    IF param_main = 0
    THEN InitRet([s EXCEPT !.param_main = param_main, !.active = 1], h, SEQ_OK)
    ELSE IF ~mem_ok
         THEN InitRet([s EXCEPT !.param_main = param_main, !.buf = NULL], h,
                      SEQ_ERR_NOMEM)
         ELSE InitRet([s EXCEPT !.param_main = param_main, !.buf = id,
                                !.buf_data = [k \in 1..param_main |-> fill],
                                !.buf_size = param_main, !.buf_head = 0,
                                !.active = 1],
                      HeapAlloc(h, id), SEQ_OK)

InitUpsample(s, h, param_main) ==
    IF param_main = 0
    THEN InitRet(s, h, SEQ_ERR_ARG)
    ELSE InitRet([s EXCEPT !.param_main = param_main, !.remaining = 0,
                           !.active = 1], h, SEQ_OK)

\* Mutant: the factor is not checked.
InitDownsample_AcceptsZero(s, h, param_main) ==
    InitRet([s EXCEPT !.param_main = param_main, !.counter = 0,
                      !.active = 1], h, SEQ_OK)

InitDownsample(s, h, param_main) ==
    IF param_main = 0
    THEN InitRet(s, h, SEQ_ERR_ARG)
    ELSE InitRet([s EXCEPT !.param_main = param_main, !.counter = 0,
                           !.active = 1], h, SEQ_OK)

\* Mutant: the state is left inactive, as if a start call were needed.
InitDiff_NotStarted(s, h) == InitRet([s EXCEPT !.has_last = 0], h, SEQ_OK)

InitDiff(s, h) == InitRet([s EXCEPT !.has_last = 0, !.active = 1], h, SEQ_OK)

InitCumsum(s, h) == InitRet([s EXCEPT !.acc = 0, !.active = 1], h, SEQ_OK)

InitUnsupported(s, h) == InitRet(s, h, SEQ_ERR_UNSUPPORTED)

\* id: the identity of the buffer malloc returns when it succeeds (mem_ok).
seq_stream_init(s0, h, op, param_main, fill, id, mem_ok) ==
    LET s == [seq_stream_reset(s0) EXCEPT !.op = op, !.fill = fill]
    IN CASE op = SEQ_OP_PAD_FRONT -> InitPadFront(s, h, param_main)
         [] op = SEQ_OP_DELAY -> InitDelay(s, h, param_main, fill, id, mem_ok)
         [] op = SEQ_OP_UPSAMPLE -> InitUpsample(s, h, param_main)
         [] op = SEQ_OP_DOWNSAMPLE -> InitDownsample(s, h, param_main)
         [] op = SEQ_OP_DIFF -> InitDiff(s, h)
         [] op = SEQ_OP_CUMSUM -> InitCumsum(s, h)
         [] OTHER -> InitUnsupported(s, h)

(* ------------------------------------------------------------------ *)
(* seq_stream_step, one operator per case of its switch.              *)
(* A result: the state and heap after the call, the return code,      *)
(* whether *has_output was stored and its value, whether *y was       *)
(* stored and its value.                                              *)
(* ------------------------------------------------------------------ *)
StepRet(s, h, rc, ho_written, has_output, y_written, y) ==
    [st |-> s, heap |-> h, rc |-> rc, ho_written |-> ho_written,
     has_output |-> has_output, y_written |-> y_written, y |-> y]

\* A return after "*has_output = 0" that stores nothing else.
StepQuiet(s, h, rc) == StepRet(s, h, rc, TRUE, 0, FALSE, 0)

\* Mutant: a refused input still consumes one pending zero.
StepPadFront_RefusalConsumes(s, h, has_input, x, y_null) ==
    IF s.remaining > 0
    THEN IF has_input /= 0
         THEN StepQuiet([s EXCEPT !.remaining = s.remaining - 1], h,
                        SEQ_ERR_STATE)
         ELSE StepRet([s EXCEPT !.remaining = s.remaining - 1], h, SEQ_OK,
                      TRUE, 1, ~y_null, 0)
    ELSE IF has_input /= 0 /\ ~y_null
         THEN StepRet(s, h, SEQ_OK, TRUE, 1, TRUE, x)
         ELSE StepQuiet(s, h, SEQ_OK)

StepPadFront(s, h, has_input, x, y_null) ==
    IF s.remaining > 0
    THEN IF has_input /= 0
         THEN StepQuiet(s, h, SEQ_ERR_STATE)
         ELSE StepRet([s EXCEPT !.remaining = s.remaining - 1], h, SEQ_OK,
                      TRUE, 1, ~y_null, 0)
    ELSE IF has_input /= 0 /\ ~y_null
         THEN StepRet(s, h, SEQ_OK, TRUE, 1, TRUE, x)
         ELSE StepQuiet(s, h, SEQ_OK)

\* Mutant: the cursor never advances.
DelayNextHead_Stuck(s) == s.buf_head

DelayNextHead(s) ==
    IF s.buf_head + 1 >= s.buf_size THEN 0 ELSE s.buf_head + 1

StepDelay(s, h, has_input, x, y_null) ==
    IF has_input = 0 THEN StepQuiet(s, h, SEQ_OK)
    ELSE IF y_null THEN StepQuiet(s, h, SEQ_ERR_ARG)
    ELSE IF s.param_main = 0 THEN StepRet(s, h, SEQ_OK, TRUE, 1, TRUE, x)
    ELSE StepRet([s EXCEPT !.buf_data[s.buf_head + 1] = x,
                           !.buf_head = DelayNextHead(s)],
                 h, SEQ_OK, TRUE, 1, TRUE, s.buf_data[s.buf_head + 1])

\* Mutant: f zeros are armed instead of f-1.
UpsampleRearm_Full(s) ==
    IF s.param_main > 1 THEN s.param_main ELSE s.remaining

UpsampleRearm(s) ==
    IF s.param_main > 1 THEN s.param_main - 1 ELSE s.remaining

\* Mutant: a flush needs one more step than there are pending zeros.
StepUpsample_ExtraFlush(s, h, has_input, x, y_null) ==
    IF s.remaining > 0
    THEN IF has_input /= 0
         THEN StepQuiet(s, h, SEQ_ERR_STATE)
         ELSE StepRet([s EXCEPT !.remaining = s.remaining - 1], h, SEQ_OK,
                      TRUE, 1, ~y_null, 0)
    ELSE IF has_input = 0 THEN StepRet(s, h, SEQ_OK, TRUE, 1, ~y_null, 0)
    ELSE IF y_null THEN StepQuiet(s, h, SEQ_ERR_ARG)
    ELSE StepRet([s EXCEPT !.remaining = UpsampleRearm(s)], h, SEQ_OK,
                 TRUE, 1, TRUE, x)

StepUpsample(s, h, has_input, x, y_null) ==
    IF s.remaining > 0
    THEN IF has_input /= 0
         THEN StepQuiet(s, h, SEQ_ERR_STATE)
         ELSE StepRet([s EXCEPT !.remaining = s.remaining - 1], h, SEQ_OK,
                      TRUE, 1, ~y_null, 0)
    ELSE IF has_input = 0 THEN StepQuiet(s, h, SEQ_OK)
    ELSE IF y_null THEN StepQuiet(s, h, SEQ_ERR_ARG)
    ELSE StepRet([s EXCEPT !.remaining = UpsampleRearm(s)], h, SEQ_OK,
                 TRUE, 1, TRUE, x)

DownsampleEmits(s) == (s.counter % s.param_main) = 0

StepDownsample(s, h, has_input, x, y_null) ==
    IF has_input = 0 THEN StepQuiet(s, h, SEQ_OK)
    ELSE IF s.param_main = 0 THEN StepQuiet(s, h, SEQ_ERR_STATE)
    ELSE IF DownsampleEmits(s)
         THEN IF y_null
              THEN StepQuiet(s, h, SEQ_ERR_ARG)
              ELSE StepRet([s EXCEPT !.counter = s.counter + 1], h, SEQ_OK,
                           TRUE, 1, TRUE, x)
         ELSE StepQuiet([s EXCEPT !.counter = s.counter + 1], h, SEQ_OK)

DiffOutput(s, x) == IF s.has_last = 0 THEN x ELSE fsub(x, s.last)

StepDiff(s, h, has_input, x, y_null) ==
    IF has_input = 0 THEN StepQuiet(s, h, SEQ_OK)
    ELSE IF y_null THEN StepQuiet(s, h, SEQ_ERR_ARG)
    ELSE StepRet([s EXCEPT !.last = x, !.has_last = 1], h, SEQ_OK,
                 TRUE, 1, TRUE, DiffOutput(s, x))

\* Mutant: the accumulator is overwritten, not added to.
CumsumNext_NoAcc(s, x) == x

CumsumNext(s, x) == fadd(s.acc, x)

StepCumsum(s, h, has_input, x, y_null) ==
    IF has_input = 0 THEN StepQuiet(s, h, SEQ_OK)
    ELSE IF y_null THEN StepQuiet(s, h, SEQ_ERR_ARG)
    ELSE StepRet([s EXCEPT !.acc = CumsumNext(s, x)], h, SEQ_OK,
                 TRUE, 1, TRUE, CumsumNext(s, x))

\* The checks every step makes before its switch.
StepInactive(s) == s.active = 0

seq_stream_step(s, h, has_input, x, y_null, ho_null) ==
    IF ho_null THEN StepRet(s, h, SEQ_ERR_ARG, FALSE, 0, FALSE, 0)
    ELSE IF StepInactive(s) THEN StepRet(s, h, SEQ_ERR_STATE, FALSE, 0, FALSE, 0)
    ELSE CASE s.op = SEQ_OP_PAD_FRONT -> StepPadFront(s, h, has_input, x, y_null)
           [] s.op = SEQ_OP_DELAY -> StepDelay(s, h, has_input, x, y_null)
           [] s.op = SEQ_OP_UPSAMPLE -> StepUpsample(s, h, has_input, x, y_null)
           [] s.op = SEQ_OP_DOWNSAMPLE -> StepDownsample(s, h, has_input, x, y_null)
           [] s.op = SEQ_OP_DIFF -> StepDiff(s, h, has_input, x, y_null)
           [] s.op = SEQ_OP_CUMSUM -> StepCumsum(s, h, has_input, x, y_null)
           [] OTHER -> StepQuiet(s, h, SEQ_ERR_UNSUPPORTED)

(* ------------------------------------------------------------------ *)
(* seq_stream_dispose                                                 *)
(* ------------------------------------------------------------------ *)
\* Mutant: the freed buffer pointer is kept.
DisposeFields_KeepBuf(s) ==
    [s EXCEPT !.buf_size = 0, !.buf_head = 0, !.active = 0,
              !.param_main = 0, !.param_aux = 0, !.fill = 0, !.counter = 0,
              !.remaining = 0, !.last = 0, !.has_last = 0, !.acc = 0]

DisposeFields(s) ==
    [s EXCEPT !.buf = NULL, !.buf_data = << >>, !.buf_size = 0,
              !.buf_head = 0, !.active = 0,
              !.param_main = 0, !.param_aux = 0, !.fill = 0, !.counter = 0,
              !.remaining = 0, !.last = 0, !.has_last = 0, !.acc = 0]

seq_stream_dispose(s, h) ==
    LET f == HeapFree(h, s.buf)
    IN [st |-> DisposeFields(s), heap |-> f.heap, ub |-> f.ub]

(* ------------------------------------------------------------------ *)
(* Bookkeeping of the calls made (not program state)                  *)
(* ------------------------------------------------------------------ *)
\* The latest call: its name, the arguments has_input, y, has_output of a
\* step (op, infinite_input of a capability query), the return code, and
\* what was stored through has_output.  The arguments of an init are in
\* args; the sample of a step is in xs and the output in out.
NoCall ==
    [fn |-> "none", op |-> 0, inf |-> 0, has_input |-> 0, y_null |-> FALSE,
     ho_null |-> FALSE, rc |-> 0, ho_written |-> FALSE, has_output |-> 0,
     result |-> 0]

InitCall(rc) == [NoCall EXCEPT !.fn = "init", !.rc = rc]

StepCall(has_input, y_null, ho_null, R) ==
    [NoCall EXCEPT !.fn = "step", !.has_input = has_input,
                   !.y_null = y_null, !.ho_null = ho_null, !.rc = R.rc,
                   !.ho_written = R.ho_written, !.has_output = R.has_output]

DisposeCall == [NoCall EXCEPT !.fn = "dispose"]

CapableCall(op, inf, result) ==
    [NoCall EXCEPT !.fn = "capable", !.op = op, !.inf = inf, !.result = result]

\* An output was signalled, or a sample consumed, with no y to hold it.
Lost(has_input, y_null, R) ==
    /\ R.rc = SEQ_OK
    /\ y_null
    /\ (R.has_output = 1 \/ has_input /= 0)

LostOut == << [y |-> 0, from |-> "lost"] >>

OutAfter(o, has_input, y_null, R) ==
    IF o = LostOut \/ Lost(has_input, y_null, R) THEN LostOut
    ELSE IF R.rc = SEQ_OK /\ R.has_output = 1 /\ R.y_written
         THEN Append(o, [y |-> R.y,
                         from |-> IF has_input /= 0 THEN "input" ELSE "flush"])
         ELSE o

XsAfter(a, has_input, x, R) ==
    IF has_input /= 0 /\ R.rc = SEQ_OK THEN Append(a, x) ELSE a

\* "feeding": only real-input steps so far; "flushing": the samples were
\* followed by flush steps only; "broken": any other order of calls.  A
\* call refused for a missing pointer is no step of the protocol.
ProtoAfter(p, has_input, y_null, ho_null, R) ==
    IF (y_null \/ ho_null) /\ R.rc /= SEQ_OK THEN p
    ELSE IF y_null THEN "broken"
    ELSE IF has_input /= 0
         THEN IF p = "feeding" THEN "feeding" ELSE "broken"
         ELSE IF p \in {"feeding", "flushing"} THEN "flushing" ELSE "broken"

\* The pointer arguments of a step: both given, y missing, has_output missing.
PointerArgs ==
    {[y_null |-> FALSE, ho_null |-> FALSE], [y_null |-> TRUE, ho_null |-> FALSE],
     [y_null |-> FALSE, ho_null |-> TRUE]}

Vals(o) == [k \in 1..Len(o) |-> o[k].y]

\* The parameters a caller passes: cli_main leaves param_main 0 for the
\* operators without a size parameter and fill 0.0 for those without a fill.
ParamsOf(op) ==
    IF op \in {SEQ_OP_PAD_FRONT, SEQ_OP_PAD_BACK, SEQ_OP_DELAY, SEQ_OP_ADVANCE,
               SEQ_OP_UPSAMPLE, SEQ_OP_DOWNSAMPLE}
    THEN Params ELSE {0}

\* malloc is called, and may fail, only for a delay of at least one sample.
MallocOutcomes(op, param_main) ==
    IF op = SEQ_OP_DELAY /\ param_main > 0 THEN BOOLEAN ELSE {TRUE}

FillsOf(op) == IF op \in {SEQ_OP_DELAY, SEQ_OP_ADVANCE} THEN Fills ELSE {0}

(* ------------------------------------------------------------------ *)
(* seq_window_t (src/3): buf is the calloc'ed array (1-based here),   *)
(* << >> with buf_null when the pointer is NULL.                      *)
(* ------------------------------------------------------------------ *)
WindowBlank == [buf_null |-> TRUE, buf |-> << >>, capacity |-> 0,
                start |-> 0, count |-> 0]

seq_window_init(capacity, mem_ok) ==
    IF capacity = 0 \/ ~mem_ok THEN WindowBlank
    ELSE [buf_null |-> FALSE, buf |-> [k \in 1..capacity |-> 0],
          capacity |-> capacity, start |-> 0, count |-> 0]

WindowInvalid(w) == w.buf_null \/ w.capacity = 0

\* Mutant: a push on a full window overwrites the oldest slot and leaves
\* start where it was.
PushAdvance_Stay(w) == w.start

PushAdvance(w) == (w.start + 1) % w.capacity

seq_window_push(w, x) ==
    IF WindowInvalid(w) THEN w
    ELSE IF w.count < w.capacity
         THEN [w EXCEPT !.count = w.count + 1,
                        !.buf[((w.start + w.count) % w.capacity) + 1] = x]
         ELSE [w EXCEPT !.start = PushAdvance(w),
                        !.buf[w.start + 1] = x]

seq_window_get(w, i) ==
    IF WindowInvalid(w) THEN 0
    ELSE IF i >= w.count THEN 0
    ELSE w.buf[((w.start + i) % w.capacity) + 1]

\* The latest window call.
NoWinCall == [fn |-> "none", rc |-> 0, written |-> FALSE, out |-> 0]

NoWindows == [wa |-> WindowBlank, wb |-> WindowBlank, pushed |-> << >>,
              call |-> NoWinCall]

\* The latest operator call.
(* ------------------------------------------------------------------ *)
(* SignalSeq (src/1/main.c): start, length, capacity, allow_expand    *)
(* are the int fields; data is NULL or the buffer, whose capacity     *)
(* elements are kept in buf.  int arithmetic is modulo 2^IntBits (a   *)
(* signed overflow is undefined behaviour; the builds wrap).          *)
(* ------------------------------------------------------------------ *)
INITIAL_CAPACITY == 8

IntMin == -Pow2(IntBits - 1)

IntMax == Pow2(IntBits - 1) - 1

IntWrap(v) == ((v - IntMin) % Pow2(IntBits)) + IntMin

\* The content of an element that malloc or realloc delivered and that
\* was never assigned.
Unset == -1

\* The address of a live buffer.
SomeBuffer == 1

\* memset(&seq, 0, sizeof(seq))
SignalBlank ==
    [start |-> 0, length |-> 0, capacity |-> 0, allow_expand |-> 0,
     data |-> NULL, buf |-> << >>]

SigRet(rc, seq) == [rc |-> rc, seq |-> seq]

signal_seq_init(seq, start, initial_length, allow_expand, mem_ok) ==
    IF initial_length < 0 THEN SigRet(-1, seq)
    ELSE LET capacity ==
                 IF allow_expand /= 0 /\ initial_length < INITIAL_CAPACITY
                 THEN INITIAL_CAPACITY ELSE initial_length
         IN IF capacity > 0 /\ ~mem_ok THEN SigRet(-1, seq)
            ELSE SigRet(0, [start |-> start,
                            length |-> initial_length,
                            capacity |-> capacity,
                            allow_expand |-> IF allow_expand /= 0 THEN 1 ELSE 0,
                            data |-> IF capacity > 0 THEN SomeBuffer ELSE NULL,
                            buf |-> [k \in 1..capacity |-> Unset]])

signal_seq_free(seq) == SignalBlank

\* rc and *physical_index
signal_seq_logical_to_physical(seq, logical_index) ==
    LET offset == IntWrap(logical_index - seq.start)
    IN IF offset < 0 \/ offset >= seq.length THEN [rc |-> -1, pos |-> 0]
       ELSE [rc |-> 0, pos |-> offset]

signal_seq_set(seq, logical_index, value) ==
    LET P == signal_seq_logical_to_physical(seq, logical_index)
    IN IF P.rc /= 0 THEN SigRet(-1, seq)
       ELSE SigRet(0, [seq EXCEPT !.buf[P.pos + 1] = value])

\* rc and *out_value; reading an element never assigned gives g.
signal_seq_get(seq, logical_index, g) ==
    LET P == signal_seq_logical_to_physical(seq, logical_index)
    IN IF P.rc /= 0 THEN [rc |-> -1, value |-> 0]
       ELSE [rc |-> 0,
             value |-> IF seq.buf[P.pos + 1] = Unset THEN g
                       ELSE seq.buf[P.pos + 1]]

signal_seq_append(seq, value, mem_ok) ==
    IF seq.allow_expand = 0 /\ seq.length >= seq.capacity
    THEN SigRet(-1, seq)
    ELSE LET full == seq.length >= seq.capacity
             new_capacity == IF seq.capacity > 0
                             THEN IntWrap(seq.capacity * 2)
                             ELSE INITIAL_CAPACITY
             grown == IF full
                      THEN [seq EXCEPT
                               !.data = SomeBuffer,
                               !.capacity = new_capacity,
                               !.buf = [k \in 1..new_capacity |->
                                           IF k <= seq.capacity
                                           THEN seq.buf[k] ELSE Unset]]
                      ELSE seq
         IN IF full /\ ~mem_ok THEN SigRet(-1, seq)
            ELSE SigRet(0, [grown EXCEPT !.buf[seq.length + 1] = value,
                                         !.length = seq.length + 1])

NoSigCall ==
    [fn |-> "none", rc |-> 0, index |-> 0, value |-> 0, mem_ok |-> TRUE]

NoSignal == [s |-> SignalBlank, prev |-> SignalBlank, call |-> NoSigCall]

NoOp == [fn |-> "none"]

(* ------------------------------------------------------------------ *)
(* Spec: one stream object driven by arbitrary API calls              *)
(* ------------------------------------------------------------------ *)
InitCommon ==
    /\ st = StreamBlank
    /\ heap = {}
    /\ ub = FALSE
    /\ ninit = 0
    /\ args = [op |-> 0, param_main |-> 0, fill |-> 0]
    /\ call = NoCall
    /\ prev = StreamBlank
    /\ xs = << >>
    /\ out = << >>
    /\ proto = "none"
    /\ ret = -1
    /\ ops = NoOp
    /\ sig = NoSignal

Init == InitCommon /\ pc = "api" /\ win = NoWindows

\* seq_stream_init(&st, op, param_main, 0, fill), also on a state that was
\* initialised before (with or without a dispose in between).
ApiInit ==
    /\ pc = "api"
    /\ UNCHANGED <<win, ops, sig>>
    /\ ninit < MaxInits
    /\ \E op \in OpValues :
        \E param_main \in ParamsOf(op), fill \in FillsOf(op) :
        \E mem_ok \in MallocOutcomes(op, param_main) :
         LET R == seq_stream_init(st, heap, op, param_main, fill, ninit + 1, mem_ok)
         IN /\ st' = R.st
            /\ heap' = R.heap
            /\ call' = InitCall(R.rc)
            /\ args' = [op |-> op, param_main |-> param_main, fill |-> fill]
    /\ ninit' = ninit + 1
    /\ xs' = << >>
    /\ out' = << >>
    /\ proto' = "feeding"
    /\ prev' = StreamBlank
    /\ UNCHANGED <<ub, pc, ret>>

\* seq_stream_step(&st, has_input, x, y, has_output)
ApiStep ==
    /\ pc = "api"
    /\ UNCHANGED <<win, ops, sig>>
    /\ ninit > 0
    /\ \E has_input \in {0, 1}, ptr \in PointerArgs :
         \E x \in (IF has_input = 0 THEN {0} ELSE Samples) :
           /\ has_input /= 0 => Len(xs) < MaxLen
           /\ LET y_null == ptr.y_null
                  ho_null == ptr.ho_null
                  R == seq_stream_step(st, heap, has_input, x, y_null, ho_null)
              IN /\ st' = R.st
                 /\ heap' = R.heap
                 /\ call' = StepCall(has_input, y_null, ho_null, R)
                 /\ xs' = XsAfter(xs, has_input, x, R)
                 /\ out' = OutAfter(out, has_input, y_null, R)
                 /\ proto' = ProtoAfter(proto, has_input, y_null, ho_null, R)
    /\ prev' = st
    /\ UNCHANGED <<ub, ninit, args, pc, ret>>

\* seq_stream_dispose(&st)
ApiDispose ==
    /\ pc = "api"
    /\ UNCHANGED <<win, ops, sig>>
    /\ ninit > 0
    /\ LET D == seq_stream_dispose(st, heap)
       IN /\ st' = D.st
          /\ heap' = D.heap
          /\ ub' = (ub \/ D.ub)
    /\ call' = DisposeCall
    /\ proto' = "broken"
    /\ prev' = st
    /\ UNCHANGED <<ninit, args, xs, out, pc, ret>>

\* seq_online_capable(op, infinite_input), consulted before or after a
\* construction (as cli.c does), whatever the stream object holds then.
ApiCapable ==
    /\ pc = "api"
    /\ UNCHANGED <<win, ops, sig>>
    /\ call.fn \in {"none", "init", "capable"}
    /\ \E op \in OpValues, inf \in InfFlags :
         call' = CapableCall(op, inf, seq_online_capable(op, inf))
    /\ UNCHANGED <<st, heap, ub, ninit, args, prev, xs, out, proto, pc, ret>>

\* seq_upsample(&src, factor, &dst) or seq_downsample(&src, factor, &dst)
\* with dst holding dst0.  The batch operators neither read nor write
\* the stream object; the calls are made before its first init.
BatchSources == {<< >>, <<1, 2>>}
BatchDsts == {<< >>, <<5>>}

ApiBatchResample ==
    /\ pc = "api"
    /\ UNCHANGED <<win, ops, sig>>
    /\ ninit = 0
    /\ \E op \in {SEQ_OP_UPSAMPLE, SEQ_OP_DOWNSAMPLE}, src \in BatchSources,
          factor \in Params, dst0 \in BatchDsts, mem_ok \in BOOLEAN :
         LET R == IF op = SEQ_OP_UPSAMPLE
                  THEN BatchUpsample(src, factor, dst0, mem_ok)
                  ELSE BatchDownsample(src, factor, dst0, mem_ok)
         IN call' = [NoCall EXCEPT !.fn = "batch", !.op = op, !.rc = R.rc,
                                   !.result = [src |-> src, factor |-> factor,
                                               dst0 |-> dst0, dst |-> R.dst]]
    /\ UNCHANGED <<st, heap, ub, ninit, args, prev, xs, out, proto, pc, ret>>

Next == ApiInit \/ ApiStep \/ ApiDispose \/ ApiCapable \/ ApiBatchResample

Spec == Init /\ [][Next]_vars

(* ------------------------------------------------------------------ *)
(* SpecCli: cli_run_stream(op, param_main, fill)                      *)
(*   pc = "cli_start"   entry, before the capability check            *)
(*        "cli_init"    before seq_stream_init                        *)
(*        "cli_flush0"  in the initial flush loop                     *)
(*        "cli_read"    at scanf, the head of the input loop          *)
(*        "cli_flush"   in the flush loop that follows a sample       *)
(*        "cli_done"    returned; ret holds the return value          *)
(* ------------------------------------------------------------------ *)
InitCli == InitCommon /\ pc = "cli_start" /\ win = NoWindows

\* The tokens scanf may deliver: a number, the END token, a token that is
\* no number, and end of input.
Tokens == [kind : {"num"}, x : Samples] \cup
          {[kind |-> "end", x |-> 0], [kind |-> "bad", x |-> 0],
           [kind |-> "eof", x |-> 0]}

\* The error exits "seq_stream_dispose(&st); return 1;" and the normal
\* exit "seq_stream_dispose(&st); return 0;", from stream state s, heap h.
CliExit(s, h, code) ==
    LET D == seq_stream_dispose(s, h)
    IN /\ st' = D.st
       /\ heap' = D.heap
       /\ ub' = (ub \/ D.ub)
       /\ call' = DisposeCall
       /\ prev' = s
       /\ ret' = code
       /\ pc' = "cli_done"

CliCheckCapable ==
    /\ pc = "cli_start"
    /\ UNCHANGED <<win, ops, sig>>
    /\ \E op \in NineOps :
        \E param_main \in ParamsOf(op), fill \in FillsOf(op) :
          /\ args' = [op |-> op, param_main |-> param_main, fill |-> fill]
          /\ call' = CapableCall(op, 1, seq_online_capable(op, 1))
          /\ IF seq_online_capable(op, 1) = 0
             THEN ret' = 1 /\ pc' = "cli_done"
             ELSE ret' = ret /\ pc' = "cli_init"
    /\ UNCHANGED <<st, heap, ub, ninit, prev, xs, out, proto>>

CliStreamInit ==
    /\ pc = "cli_init"
    /\ UNCHANGED <<win, ops, sig>>
    /\ \E mem_ok \in MallocOutcomes(args.op, args.param_main) :
         LET R == seq_stream_init(st, heap, args.op, args.param_main, args.fill,
                                  ninit + 1, mem_ok)
         IN /\ st' = R.st
            /\ heap' = R.heap
            /\ call' = InitCall(R.rc)
            /\ IF R.rc /= SEQ_OK
               THEN ret' = 1 /\ pc' = "cli_done"
               ELSE ret' = ret /\ pc' = "cli_flush0"
    /\ ninit' = ninit + 1
    /\ proto' = "feeding"
    /\ UNCHANGED <<ub, args, prev, xs, out>>

\* One iteration of a flush loop: seq_stream_step(&st, 0, 0.0, &y,
\* &has_output); leave the loop for pc value after when no output came.
CliFlushIteration(after) ==
    LET R == seq_stream_step(st, heap, 0, 0, FALSE, FALSE)
    IN IF R.rc /= SEQ_OK
       THEN /\ CliExit(R.st, R.heap, 1)
            /\ UNCHANGED <<ninit, args, xs, out, proto>>
       ELSE /\ st' = R.st
            /\ heap' = R.heap
            /\ call' = StepCall(0, FALSE, FALSE, R)
            /\ prev' = st
            /\ out' = OutAfter(out, 0, FALSE, R)
            /\ proto' = ProtoAfter(proto, 0, FALSE, FALSE, R)
            /\ pc' = (IF R.has_output = 0 THEN after ELSE pc)
            /\ UNCHANGED <<ub, ninit, args, xs, ret>>

CliInitialFlush ==
    /\ pc = "cli_flush0"
    /\ CliFlushIteration("cli_read")
    /\ UNCHANGED <<win, ops, sig>>

CliExtraFlush ==
    /\ pc = "cli_flush"
    /\ CliFlushIteration("cli_read")
    /\ UNCHANGED <<win, ops, sig>>

\* scanf of one token and, for a number, the real-input step.
CliReadToken ==
    /\ pc = "cli_read"
    /\ UNCHANGED <<win, ops, sig>>
    /\ \E tok \in Tokens :
         /\ tok.kind = "num" => Len(xs) < MaxLen
         /\ IF tok.kind \in {"end", "eof"}
            THEN /\ CliExit(st, heap, 0)
                 /\ UNCHANGED <<ninit, args, xs, out, proto>>
            ELSE IF tok.kind = "bad"
            THEN /\ CliExit(st, heap, 1)
                 /\ UNCHANGED <<ninit, args, xs, out, proto>>
            ELSE LET R == seq_stream_step(st, heap, 1, tok.x, FALSE, FALSE)
                 IN IF R.rc /= SEQ_OK
                    THEN /\ CliExit(R.st, R.heap, 1)
                         /\ UNCHANGED <<ninit, args, xs, out, proto>>
                    ELSE /\ st' = R.st
                         /\ heap' = R.heap
                         /\ call' = StepCall(1, FALSE, FALSE, R)
                         /\ prev' = st
                         /\ xs' = XsAfter(xs, 1, tok.x, R)
                         /\ out' = OutAfter(out, 1, FALSE, R)
                         /\ proto' = ProtoAfter(proto, 1, FALSE, FALSE, R)
                         /\ pc' = "cli_flush"
                         /\ UNCHANGED <<ub, ninit, args, ret>>

NextCli ==
    CliCheckCapable \/ CliStreamInit \/ CliInitialFlush \/ CliReadToken \/ CliExtraFlush

SpecCli == InitCli /\ [][NextCli]_vars

(* ------------------------------------------------------------------ *)
(* seq_corr_window_norm (src/3/src/ops.c)                             *)
(* ------------------------------------------------------------------ *)
\* The L samples the two loops read: seq_window_get(w, offset + i).
WindowAligned(w, offset, L) ==
    [i \in 1..L |-> seq_window_get(w, offset + (i - 1))]

CorrError == [rc |-> -1, written |-> FALSE, out |-> 0]

\* Mutant: the oldest L samples of the window are used.
CorrOffset_Oldest(count, L) == 0

\* offset_a, offset_b: the logical position of the first sample used.
CorrOffset(count, L) == IF count > L THEN count - L ELSE 0

seq_corr_window_norm(wa, wb) ==
    IF WindowInvalid(wa) \/ WindowInvalid(wb) THEN CorrError
    ELSE IF wa.count = 0 \/ wb.count = 0 THEN CorrError
    ELSE LET la == wa.count
             lb == wb.count
             L == IF la < lb THEN la ELSE lb
             offset_a == CorrOffset(la, L)
             offset_b == CorrOffset(lb, L)
             xa == WindowAligned(wa, offset_a, L)
             yb == WindowAligned(wb, offset_b, L)
             mx == fdiv(fsum(xa, L), L)
             my == fdiv(fsum(yb, L), L)
             dx == [i \in 1..L |-> fsub(xa[i], mx)]
             dy == [i \in 1..L |-> fsub(yb[i], my)]
             num == fsum([i \in 1..L |-> fmul(dx[i], dy[i])], L)
             sx2 == fsum([i \in 1..L |-> fmul(dx[i], dx[i])], L)
             sy2 == fsum([i \in 1..L |-> fmul(dy[i], dy[i])], L)
             denom == fsqrt(fmul(sx2, sy2))
         IN IF L = 0 THEN CorrError
            ELSE IF sx2 <= 0 \/ sy2 <= 0 THEN CorrError
            ELSE IF denom = 0 THEN CorrError
            ELSE [rc |-> 0, written |-> TRUE, out |-> fdiv(num, denom)]

(* ------------------------------------------------------------------ *)
(* The operators of src/3/src/ops.c.  A seq_t is the sequence of its  *)
(* samples (data NULL and length 0: << >>).  Each operator returns    *)
(*   rc       its return value                                        *)
(*   touched  whether *out was assigned (seq_init(out, ..) reached)   *)
(*   out      the contents of *out then                               *)
(*   reads    the reads a->data[k], b->data[j] made for output n, as  *)
(*            triples <<n, k, j>> of C indices                        *)
(* A read outside an array is undefined behaviour: it delivers the    *)
(* arbitrary value g (or the process dies).                           *)
(* ------------------------------------------------------------------ *)
OpRet(rc, touched, out_data, reads) ==
    [rc |-> rc, touched |-> touched, out |-> out_data, reads |-> reads]

\* s->data[i]
Load(s, i, g) == IF i \in 0..(Len(s) - 1) THEN s[i + 1] ELSE g

\* seq_init(out, len): the contents of *out and the return value.
seq_init(len, mem_ok) ==
    IF len = 0 THEN [rc |-> 0, data |-> << >>]
    ELSE IF ~mem_ok THEN [rc |-> -1, data |-> << >>]
    ELSE [rc |-> 0, data |-> [k \in 1..len |-> 0]]

MinLen(a, b) == IF Len(a) < Len(b) THEN Len(a) ELSE Len(b)

seq_add(a, b, mem_ok) ==
    LET n == MinLen(a, b)
        I == seq_init(n, mem_ok)
    IN IF I.rc /= 0 THEN OpRet(-1, TRUE, I.data, {})
       ELSE OpRet(0, TRUE, [k \in 1..n |-> fadd(a[k], b[k])],
                  {<<k, k, k>> : k \in 0..(n - 1)})

seq_mul(a, b, mem_ok) ==
    LET n == MinLen(a, b)
        I == seq_init(n, mem_ok)
    IN IF I.rc /= 0 THEN OpRet(-1, TRUE, I.data, {})
       ELSE OpRet(0, TRUE, [k \in 1..n |-> fmul(a[k], b[k])],
                  {<<k, k, k>> : k \in 0..(n - 1)})

\* acc after the loop "for (k = k_lo; k <= k_hi; ++k) acc += a[k] * b[J(k)]"
\* where jof[k - k_lo + 1] is the index J(k).
RECURSIVE MacLoop(_, _, _, _, _, _)
MacLoop(a, b, k_lo, k_hi, jof, g) ==
    IF k_hi < k_lo THEN 0
    ELSE fadd(MacLoop(a, b, k_lo, k_hi - 1, jof, g),
              fmul(Load(a, k_hi, g), Load(b, jof[k_hi - k_lo + 1], g)))

\* Mutant: the lower bound of k forgets the part of b before index 0.
ConvKMin_Zero(n, lb) == 0

ConvKMin(n, lb) == IF n >= lb - 1 THEN n - (lb - 1) ELSE 0

ConvKMax(n, la) == IF n < la - 1 THEN n ELSE la - 1

seq_conv_linear(a, b, mem_ok, g) ==
    IF Len(a) = 0 \/ Len(b) = 0 THEN OpRet(0, TRUE, << >>, {})
    ELSE LET la == Len(a)
             lb == Len(b)
             ly == la + lb - 1
             I == seq_init(ly, mem_ok)
             Ks(n) == ConvKMin(n, lb)..ConvKMax(n, la)
             Js(n) == [i \in 1..(ConvKMax(n, la) - ConvKMin(n, lb) + 1) |->
                          n - (ConvKMin(n, lb) + i - 1)]
         IN IF I.rc /= 0 THEN OpRet(-1, TRUE, I.data, {})
            ELSE OpRet(0, TRUE,
                       [m \in 1..ly |->
                           MacLoop(a, b, ConvKMin(m - 1, lb),
                                   ConvKMax(m - 1, la), Js(m - 1), g)],
                       UNION {{<<n, k, n - k>> : k \in Ks(n)} :
                                  n \in 0..(ly - 1)})

\* Mutant: the index into b runs forwards (n + k), not backwards.
CircularIndex_Forward(n, k, nlen) == (n + k) % nlen

CircularIndex(n, k, nlen) == (n + nlen - k) % nlen

\* Mutant: inputs of different lengths are accepted.
CircularArgsBad_NoLengthCheck(a, b) == Len(a) = 0 \/ Len(b) = 0

CircularArgsBad(a, b) == Len(a) = 0 \/ Len(b) = 0 \/ Len(a) /= Len(b)

seq_conv_circular(a, b, out0, mem_ok, g) ==
    IF CircularArgsBad(a, b) THEN OpRet(-1, FALSE, out0, {})
    ELSE LET nlen == Len(a)
             I == seq_init(nlen, mem_ok)
             Js(n) == [i \in 1..nlen |-> CircularIndex(n, i - 1, nlen)]
         IN IF I.rc /= 0 THEN OpRet(-1, TRUE, I.data, {})
            ELSE OpRet(0, TRUE,
                       [m \in 1..nlen |->
                           MacLoop(a, b, 0, nlen - 1, Js(m - 1), g)],
                       {<<n, k, CircularIndex(n, k, nlen)>> :
                            n \in 0..(nlen - 1), k \in 0..(nlen - 1)})

\* Mutant: k starts at 0 also for a negative lag.
CorrKStart_Zero(lag) == 0

CorrKStart(lag) == IF lag < 0 THEN -lag ELSE 0

\* k_end: la - 1, or, when that would index b past its end,
\* (size_t)((long)(lb - 1) - lag), replaced by 0 when negative as a long.
CorrKEnd(lag, la, lb) ==
    IF (la - 1) + lag > lb - 1
    THEN IF (lb - 1) - lag < 0 THEN 0 ELSE (lb - 1) - lag
    ELSE la - 1

seq_corr_cross(a, b, mem_ok, g) ==
    IF Len(a) = 0 \/ Len(b) = 0 THEN OpRet(0, TRUE, << >>, {})
    ELSE LET la == Len(a)
             lb == Len(b)
             lr == la + lb - 1
             I == seq_init(lr, mem_ok)
             Lag(n) == n - (lb - 1)
             Lo(n) == CorrKStart(Lag(n))
             Hi(n) == CorrKEnd(Lag(n), la, lb)
             Js(n) == [i \in 1..(Hi(n) - Lo(n) + 1) |-> (Lo(n) + i - 1) + Lag(n)]
         IN IF I.rc /= 0 THEN OpRet(-1, TRUE, I.data, {})
            ELSE OpRet(0, TRUE,
                       [m \in 1..lr |->
                           MacLoop(a, b, Lo(m - 1), Hi(m - 1), Js(m - 1), g)],
                       UNION {{<<n, k, k + Lag(n)>> : k \in Lo(n)..Hi(n)} :
                                  n \in 0..(lr - 1)})

(* ------------------------------------------------------------------ *)
(* SpecWin: two windows driven by arbitrary pushes and correlation    *)
(* calls (cli_mode_corr_window pushes to both, then correlates)       *)
(* ------------------------------------------------------------------ *)
\* A small sample, and one whose triple needs more than MantBits bits.
WinSamples == {1, Pow2(MantBits) - 2}

InitWin ==
    /\ InitCommon
    /\ pc = "win"
    /\ \E ca \in 0..MaxCap, cb \in 0..MaxCap, ma \in BOOLEAN, mb \in BOOLEAN :
         win = [NoWindows EXCEPT !.wa = seq_window_init(ca, ma),
                                 !.wb = seq_window_init(cb, mb)]

OtherVars == <<st, heap, ub, ninit, args, call, prev, xs, out, proto, pc, ret>>

\* seq_window_push(&wa, x)
WinPushA ==
    /\ pc = "win"
    /\ Len(win.pushed) < MaxPush
    /\ \E x \in WinSamples :
         win' = [win EXCEPT !.wa = seq_window_push(win.wa, x),
                            !.pushed = Append(win.pushed, x),
                            !.call = [NoWinCall EXCEPT !.fn = "push_a"]]
    /\ UNCHANGED <<OtherVars, ops, sig>>

\* seq_window_push(&wb, x)
WinPushB ==
    /\ pc = "win"
    /\ \E x \in WinSamples :
         win' = [win EXCEPT !.wb = seq_window_push(win.wb, x),
                            !.call = [NoWinCall EXCEPT !.fn = "push_b"]]
    /\ UNCHANGED <<OtherVars, ops, sig>>

\* rho = 0.0; rc = seq_corr_window_norm(&wa, &wb, &rho)
WinCorr ==
    /\ pc = "win"
    /\ LET R == seq_corr_window_norm(win.wa, win.wb)
       IN win' = [win EXCEPT !.call = [fn |-> "corr", rc |-> R.rc,
                                       written |-> R.written, out |-> R.out]]
    /\ UNCHANGED <<OtherVars, ops, sig>>

NextWin == WinPushA \/ WinPushB \/ WinCorr

SpecWin == InitWin /\ [][NextWin]_vars

(* ------------------------------------------------------------------ *)
(* SpecOps: one call of an operator on inputs a, b with *out (dst)    *)
(* holding out0 before the call                                       *)
(* ------------------------------------------------------------------ *)
RECURSIVE SeqsUpTo(_, _)
SeqsUpTo(n, S) ==
    IF n = 0 THEN {<< >>}
    ELSE LET T == SeqsUpTo(n - 1, S)
         IN T \cup {Append(t, x) : t \in {t \in T : Len(t) = n - 1}, x \in S}

\* Samples of a: small ones and one whose sums need more than MantBits
\* bits.  Samples of b: the two values of an impulse.
SamplesA == {1, 2, Pow2(MantBits) - 2}
SamplesB == {0, 1}

InputsA == SeqsUpTo(MaxLen, SamplesA) \cup {<<1, 2, 3>>, <<1, 0, 0>>}
InputsB == SeqsUpTo(MaxLen, SamplesB) \cup {<<3, 4>>}

\* What *out may hold before the call, and what a read outside an array
\* may deliver.
PriorOut == {<< >>, <<7>>}
Garbage == {0, 5}

OpCall(fn, mem_ok, R) ==
    [ops EXCEPT !.fn = fn, !.mem_ok = mem_ok, !.rc = R.rc,
                !.touched = R.touched, !.out = R.out, !.reads = R.reads]

BatchOpCall(fn, mem_ok, R) ==
    [ops EXCEPT !.fn = fn, !.mem_ok = mem_ok, !.rc = R.rc,
                !.touched = (R.dst /= ops.out0), !.out = R.dst, !.reads = {}]

InitOps ==
    /\ st = StreamBlank
    /\ heap = {}
    /\ ub = FALSE
    /\ ninit = 0
    /\ args = [op |-> 0, param_main |-> 0, fill |-> 0]
    /\ call = NoCall
    /\ prev = StreamBlank
    /\ xs = << >>
    /\ out = << >>
    /\ proto = "none"
    /\ ret = -1
    /\ pc = "ops"
    /\ win = NoWindows
    /\ sig = NoSignal
    /\ \E a \in InputsA, b \in InputsB, out0 \in PriorOut :
         ops = [fn |-> "none", a |-> a, b |-> b, out0 |-> out0,
                mem_ok |-> TRUE, rc |-> 0, touched |-> FALSE, out |-> out0,
                reads |-> {}]

OpAdd ==
    /\ pc = "ops"
    /\ ops.fn = "none"
    /\ \E mem_ok \in BOOLEAN :
         ops' = OpCall("add", mem_ok, seq_add(ops.a, ops.b, mem_ok))
    /\ UNCHANGED <<OtherVars, win, sig>>

OpMul ==
    /\ pc = "ops"
    /\ ops.fn = "none"
    /\ \E mem_ok \in BOOLEAN :
         ops' = OpCall("mul", mem_ok, seq_mul(ops.a, ops.b, mem_ok))
    /\ UNCHANGED <<OtherVars, win, sig>>

OpConvLinear ==
    /\ pc = "ops"
    /\ ops.fn = "none"
    /\ \E mem_ok \in BOOLEAN, g \in Garbage :
         ops' = OpCall("conv_linear", mem_ok,
                       seq_conv_linear(ops.a, ops.b, mem_ok, g))
    /\ UNCHANGED <<OtherVars, win, sig>>

OpConvCircular ==
    /\ pc = "ops"
    /\ ops.fn = "none"
    /\ \E mem_ok \in BOOLEAN, g \in Garbage :
         ops' = OpCall("conv_circular", mem_ok,
                       seq_conv_circular(ops.a, ops.b, ops.out0, mem_ok, g))
    /\ UNCHANGED <<OtherVars, win, sig>>

OpCorrCross ==
    /\ pc = "ops"
    /\ ops.fn = "none"
    /\ \E mem_ok \in BOOLEAN, g \in Garbage :
         ops' = OpCall("corr_cross", mem_ok,
                       seq_corr_cross(ops.a, ops.b, mem_ok, g))
    /\ UNCHANGED <<OtherVars, win, sig>>

\* seq_reverse(&a, &dst), seq_diff(&a, &dst), seq_cumsum(&a, &dst) of src/2
OpReverse ==
    /\ pc = "ops"
    /\ ops.fn = "none"
    /\ \E mem_ok \in BOOLEAN :
         ops' = BatchOpCall("reverse", mem_ok,
                            BatchStore(seq_reverse(ops.a), Len(ops.a),
                                       ops.out0, mem_ok))
    /\ UNCHANGED <<OtherVars, win, sig>>

OpDiff ==
    /\ pc = "ops"
    /\ ops.fn = "none"
    /\ \E mem_ok \in BOOLEAN :
         ops' = BatchOpCall("diff", mem_ok,
                            BatchStore(seq_diff(ops.a), Len(ops.a),
                                       ops.out0, mem_ok))
    /\ UNCHANGED <<OtherVars, win, sig>>

OpCumsum ==
    /\ pc = "ops"
    /\ ops.fn = "none"
    /\ \E mem_ok \in BOOLEAN :
         ops' = BatchOpCall("cumsum", mem_ok,
                            BatchStore(seq_cumsum(ops.a), Len(ops.a),
                                       ops.out0, mem_ok))
    /\ UNCHANGED <<OtherVars, win, sig>>

NextOps ==
    \/ OpAdd \/ OpMul \/ OpConvLinear \/ OpConvCircular \/ OpCorrCross
    \/ OpReverse \/ OpDiff \/ OpCumsum

SpecOps == InitOps /\ [][NextOps]_vars

(* ------------------------------------------------------------------ *)
(* SpecBatch: one call of a batch operator of src/2/sequence.c on a   *)
(* source src, with dst holding dst0 before the call or dst being the *)
(* object src itself (alias); after a seq_upsample, a seq_downsample  *)
(* of its result by the same factor                                   *)
(* ------------------------------------------------------------------ *)
BatchInputs == SeqsUpTo(MaxLen, Samples)

BatchPrior == {<< >>, <<7>>, <<7, 7>>}

\* Every value a size_t parameter can hold.
SizeValues == 0..(SizeMod - 1)

InitBatch ==
    /\ st = StreamBlank
    /\ heap = {}
    /\ ub = FALSE
    /\ ninit = 0
    /\ args = [op |-> 0, param_main |-> 0, fill |-> 0]
    /\ call = NoCall
    /\ prev = StreamBlank
    /\ xs = << >>
    /\ out = << >>
    /\ proto = "none"
    /\ ret = -1
    /\ pc = "batch"
    /\ win = NoWindows
    /\ sig = NoSignal
    /\ \E src \in BatchInputs, dst0 \in BatchPrior :
         ops = [fn |-> "none", src |-> src, dst0 |-> dst0, alias |-> FALSE,
                param |-> 0, fill |-> 0, mem_ok |-> TRUE, rc |-> SEQ_OK,
                dst |-> dst0, oob |-> {}, back |-> << >>]

BatchCall(fn, param, fill, alias, mem_ok, R) ==
    [ops EXCEPT !.fn = fn, !.param = param, !.fill = fill, !.alias = alias,
                !.mem_ok = mem_ok, !.rc = R.rc, !.dst = R.dst, !.oob = R.oob]

RunPadFront ==
    /\ pc = "batch"
    /\ ops.fn = "none"
    /\ \E zeros \in SizeValues, mem_ok \in BOOLEAN :
         ops' = BatchCall("pad_front", zeros, 0, FALSE, mem_ok,
                          BatchPadFront(ops.src, zeros, ops.dst0, mem_ok))
    /\ UNCHANGED <<OtherVars, win, sig>>

RunPadBack ==
    /\ pc = "batch"
    /\ ops.fn = "none"
    /\ \E zeros \in SizeValues, mem_ok \in BOOLEAN :
         ops' = BatchCall("pad_back", zeros, 0, FALSE, mem_ok,
                          BatchPadBack(ops.src, zeros, ops.dst0, mem_ok))
    /\ UNCHANGED <<OtherVars, win, sig>>

RunUpsample ==
    /\ pc = "batch"
    /\ ops.fn = "none"
    /\ \E factor \in SizeValues, mem_ok \in BOOLEAN :
         ops' = BatchCall("upsample", factor, 0, FALSE, mem_ok,
                          BatchUpsample(ops.src, factor, ops.dst0, mem_ok))
    /\ UNCHANGED <<OtherVars, win, sig>>

\* seq_downsample(&dst, factor, &back) on the result of the seq_upsample,
\* back being empty before the call.
RunDownsampleBack ==
    /\ pc = "batch"
    /\ ops.fn = "upsample"
    /\ ops.rc = SEQ_OK
    /\ \E mem_ok \in BOOLEAN :
         LET R == BatchDownsample(ops.dst, ops.param, << >>, mem_ok)
         IN ops' = [ops EXCEPT !.fn = "up_down",
                               !.mem_ok = ops.mem_ok /\ mem_ok,
                               !.rc = R.rc, !.back = R.dst]
    /\ UNCHANGED <<OtherVars, win, sig>>

RunDelay ==
    /\ pc = "batch"
    /\ ops.fn = "none"
    /\ \E delay \in SizeValues, fill \in Fills, alias \in BOOLEAN,
          mem_ok \in BOOLEAN :
         ops' = BatchCall("delay", delay, fill, alias, mem_ok,
                          BatchDelay(ops.src, delay, fill, ops.dst0, alias,
                                     mem_ok))
    /\ UNCHANGED <<OtherVars, win, sig>>

RunAdvance ==
    /\ pc = "batch"
    /\ ops.fn = "none"
    /\ \E advance \in SizeValues, fill \in Fills, alias \in BOOLEAN,
          mem_ok \in BOOLEAN :
         ops' = BatchCall("advance", advance, fill, alias, mem_ok,
                          BatchAdvance(ops.src, advance, fill, ops.dst0,
                                       alias, mem_ok))
    /\ UNCHANGED <<OtherVars, win, sig>>

RunReverse ==
    /\ pc = "batch"
    /\ ops.fn = "none"
    /\ \E alias \in BOOLEAN, mem_ok \in BOOLEAN :
         ops' = BatchCall("reverse", 0, 0, alias, mem_ok,
                          BatchReverse(ops.src, ops.dst0, alias, mem_ok))
    /\ UNCHANGED <<OtherVars, win, sig>>

RunDiff ==
    /\ pc = "batch"
    /\ ops.fn = "none"
    /\ \E alias \in BOOLEAN, mem_ok \in BOOLEAN :
         ops' = BatchCall("diff", 0, 0, alias, mem_ok,
                          BatchDiff(ops.src, ops.dst0, alias, mem_ok))
    /\ UNCHANGED <<OtherVars, win, sig>>

RunCumsum ==
    /\ pc = "batch"
    /\ ops.fn = "none"
    /\ \E alias \in BOOLEAN, mem_ok \in BOOLEAN :
         ops' = BatchCall("cumsum", 0, 0, alias, mem_ok,
                          BatchCumsum(ops.src, ops.dst0, alias, mem_ok))
    /\ UNCHANGED <<OtherVars, win, sig>>

NextBatch ==
    \/ RunPadFront \/ RunPadBack \/ RunUpsample \/ RunDownsampleBack
    \/ RunDelay \/ RunAdvance \/ RunReverse \/ RunDiff \/ RunCumsum

SpecBatch == InitBatch /\ [][NextBatch]_vars

(* ------------------------------------------------------------------ *)
(* SpecSig: arbitrary calls of the SignalSeq functions on one object  *)
(* ------------------------------------------------------------------ *)
\* Logical start indices, and logical indices asked for.
SigStarts == {0, -1, IntMax}

SigIndices == {IntMin, IntMin + 1, -2, -1, 0, 1, 2, IntMax}

SigLengths == {-1, 0, 2, MaxLen}

InitSig ==
    /\ st = StreamBlank
    /\ heap = {}
    /\ ub = FALSE
    /\ ninit = 0
    /\ args = [op |-> 0, param_main |-> 0, fill |-> 0]
    /\ call = NoCall
    /\ prev = StreamBlank
    /\ xs = << >>
    /\ out = << >>
    /\ proto = "none"
    /\ ret = -1
    /\ pc = "sig"
    /\ win = NoWindows
    /\ ops = NoOp
    /\ sig = NoSignal

SigCall(fn, R, index, value, mem_ok) ==
    [s |-> R.seq, prev |-> sig.s,
     call |-> [fn |-> fn, rc |-> R.rc, index |-> index, value |-> value,
               mem_ok |-> mem_ok]]

SigInit ==
    /\ pc = "sig"
    /\ \E start \in SigStarts, initial_length \in SigLengths,
          allow_expand \in {0, 1, 2}, mem_ok \in BOOLEAN :
         sig' = SigCall("init",
                        signal_seq_init(sig.s, start, initial_length,
                                        allow_expand, mem_ok),
                        0, 0, mem_ok)
    /\ UNCHANGED <<OtherVars, win, ops>>

SigAppend ==
    /\ pc = "sig"
    /\ sig.s.length < MaxAppend
    /\ \E mem_ok \in BOOLEAN :
         sig' = SigCall("append", signal_seq_append(sig.s, 1, mem_ok),
                        0, 1, mem_ok)
    /\ UNCHANGED <<OtherVars, win, ops>>

SigSet ==
    /\ pc = "sig"
    /\ \E logical_index \in SigIndices :
         sig' = SigCall("set", signal_seq_set(sig.s, logical_index, 2),
                        logical_index, 2, TRUE)
    /\ UNCHANGED <<OtherVars, win, ops>>

SigGet ==
    /\ pc = "sig"
    /\ \E logical_index \in SigIndices, g \in Garbage :
         LET R == signal_seq_get(sig.s, logical_index, g)
         IN sig' = SigCall("get", SigRet(R.rc, sig.s), logical_index,
                           R.value, TRUE)
    /\ UNCHANGED <<OtherVars, win, ops>>

SigFree ==
    /\ pc = "sig"
    /\ sig' = SigCall("free", SigRet(0, signal_seq_free(sig.s)), 0, 0, TRUE)
    /\ UNCHANGED <<OtherVars, win, ops>>

NextSig == SigInit \/ SigAppend \/ SigSet \/ SigGet \/ SigFree

SpecSig == InitSig /\ [][NextSig]_vars

(* ================================================================== *)
(* Properties                                                         *)
(* ================================================================== *)

\* The batch operator that corresponds to the stream a was built with.
Batch(a, x) ==
    CASE a.op = SEQ_OP_PAD_FRONT -> seq_pad_front(x, a.param_main)
      [] a.op = SEQ_OP_DELAY -> seq_delay(x, a.param_main, a.fill)
      [] a.op = SEQ_OP_UPSAMPLE -> seq_upsample(x, a.param_main)
      [] a.op = SEQ_OP_DOWNSAMPLE -> seq_downsample(x, a.param_main)
      [] a.op = SEQ_OP_DIFF -> seq_diff(x)
      [] a.op = SEQ_OP_CUMSUM -> seq_cumsum(x)

\* The latest call was a step of the streaming interface
\* step(state, has_input, x) -> (y, has_output): a seq_stream_step call
\* that passes both output locations.
ProperStep == call.fn = "step" /\ ~call.y_null /\ ~call.ho_null

InputStep == ProperStep /\ call.has_input /= 0

FlushStep == ProperStep /\ call.has_input = 0

\* Every output so far went to a y (none was dropped for a missing y).
OutputsKept == out /= LostOut

\* C1: for each of the six streaming operators, feeding x sample by sample
\* (real-input steps only) and then flushing until a step yields no output
\* gives exactly the output of the batch operator on x: every sample is
\* accepted, and once a flush step yields nothing the outputs equal the
\* batch result.
C1_FeedThenFlushEqualsBatch ==
    (st.active = 1 /\ OutputsKept) =>
        /\ (proto = "feeding" /\ InputStep) => call.rc = SEQ_OK
        /\ (proto = "flushing" /\ FlushStep /\ call.rc = SEQ_OK
            /\ call.has_output = 0) => Vals(out) = Batch(args, xs)

\* C2: the outputs of a downsample(f) stream fed x are exactly
\* seq_downsample(x, f): Len(x) \div f samples, y[i] = x[i*f].
C2_DownsampleStreamEqualsBatch ==
    (st.active = 1 /\ st.op = SEQ_OP_DOWNSAMPLE /\ OutputsKept) =>
        Vals(out) = seq_downsample(xs, st.param_main)

\* C3: driven as cli_run_stream drives it, the outputs of a pad-front(z)
\* stream equal seq_pad_front(x, z) and those of an upsample(f) stream
\* equal seq_upsample(x, f), at every return to the input loop and at the
\* normal exit.
C3_CliPadFrontUpsampleEqualBatch ==
    (/\ args.op \in {SEQ_OP_PAD_FRONT, SEQ_OP_UPSAMPLE}
     /\ (pc = "cli_read" \/ (pc = "cli_done" /\ ret = 0))) =>
        Vals(out) = Batch(args, xs)

C3_Witness ==
    /\ pc = "cli_done" /\ ret = 0
    /\ args.op = SEQ_OP_UPSAMPLE /\ args.param_main = 3
    /\ Len(xs) = 2 /\ Len(out) = 6

\* C4: for delay, diff and cumsum the outputs, all produced by real-input
\* steps, equal the batch result on the samples fed, whatever flush steps
\* were interleaved; a flush step emits nothing and leaves the state as
\* it found it.
C4_DelayDiffCumsumEqualBatch ==
    (st.active = 1 /\ st.op \in {SEQ_OP_DELAY, SEQ_OP_DIFF, SEQ_OP_CUMSUM}) =>
        /\ OutputsKept
        /\ Vals(out) = Batch(args, xs)
        /\ \A k \in 1..Len(out) : out[k].from = "input"
        /\ (call.fn = "step" /\ call.has_input = 0) =>
               (call.has_output = 0 /\ st = prev)

C4_Witness ==
    /\ st.active = 1 /\ st.op = SEQ_OP_CUMSUM
    /\ Len(xs) = 3 /\ FlushStep /\ proto = "broken"

\* C5: with infinite_input /= 0 seq_online_capable is non-zero exactly for
\* pad-front, delay, upsample, downsample, diff, cumsum (zero for pad-back,
\* advance, reverse); with infinite_input = 0 it is non-zero for all nine;
\* the answer is the same whatever the stream object holds.
C5_CapableTable ==
    call.fn = "capable" =>
        /\ call.inf /= 0 =>
              (call.result /= 0 <=>
                  call.op \in {SEQ_OP_PAD_FRONT, SEQ_OP_DELAY, SEQ_OP_UPSAMPLE,
                               SEQ_OP_DOWNSAMPLE, SEQ_OP_DIFF, SEQ_OP_CUMSUM})
        /\ (call.inf = 0 /\ call.op \in NineOps) => call.result /= 0

C5_Witness ==
    /\ call.fn = "capable" /\ call.op = SEQ_OP_REVERSE /\ call.inf = -1
    /\ call.result = 0 /\ st.active = 1 /\ st.op = SEQ_OP_DELAY

\* The main parameter is in the operator's domain: a resampling factor is
\* positive; a delay buffer's byte size fits the size type (any delay of
\* the model does).
ValidParam(a) ==
    a.op \in {SEQ_OP_UPSAMPLE, SEQ_OP_DOWNSAMPLE} => a.param_main > 0

C7_DisposeSafeAndStepRejected ==
    /\ ub = FALSE
    /\ call.fn = "dispose" =>
           (st.active = 0 /\ st.buf = NULL /\ st.buf_size = 0
            /\ (prev.buf /= NULL => prev.buf \notin heap))
    /\ (ProperStep /\ prev.active = 0) =>
           (call.rc = SEQ_ERR_STATE /\ st = prev)

\* A second dispose in a row, of a delay stream that held a buffer.
C7_Witness ==
    /\ call.fn = "dispose" /\ prev.active = 0 /\ prev.buf = NULL
    /\ args.op = SEQ_OP_DELAY /\ args.param_main = 2 /\ Len(xs) = 1
    /\ heap = {}

\* C8: on a pad-front(z) stream the outputs are z zeros, each from a flush
\* step, followed by the samples, each from its real-input step; no sample
\* is accepted while zeros remain (state error); once none remain a
\* real-input step emits its sample and a flush step emits nothing.
C8_PadFrontZerosFirst ==
    (st.active = 1 /\ st.op = SEQ_OP_PAD_FRONT /\ OutputsKept) =>
        LET z == args.param_main
        IN /\ st.remaining \in 0..z
           /\ st.remaining > 0 => xs = << >>
           /\ Len(out) = (z - st.remaining) + Len(xs)
           /\ \A k \in 1..Len(out) :
                 out[k] = IF k <= z THEN [y |-> 0, from |-> "flush"]
                          ELSE [y |-> xs[k - z], from |-> "input"]
           /\ (InputStep /\ prev.remaining > 0) =>
                  (call.rc = SEQ_ERR_STATE /\ st = prev)
           /\ (InputStep /\ prev.remaining = 0) =>
                  (call.rc = SEQ_OK /\ call.has_output = 1)
           /\ (FlushStep /\ prev.remaining = 0) =>
                  (call.rc = SEQ_OK /\ call.has_output = 0 /\ st = prev)

C8_Witness ==
    /\ st.active = 1 /\ st.op = SEQ_OP_PAD_FRONT /\ args.param_main = 2
    /\ Len(xs) = 2 /\ Len(out) = 4 /\ FlushStep

\* C9: on an upsample(f) stream every accepted sample is emitted at once
\* and followed by exactly f-1 zeros, each from a flush step, before the
\* next sample is accepted; a sample offered while a zero is pending gets
\* the state error; with f = 1 no zero is ever pending and no flush step
\* emits anything.
C9_UpsampleZerosBetweenSamples ==
    (st.active = 1 /\ st.op = SEQ_OP_UPSAMPLE /\ OutputsKept) =>
        LET f == args.param_main
        IN /\ st.remaining \in 0..(f - 1)
           /\ Len(out) = Len(xs) * f - st.remaining
           /\ \A k \in 1..Len(out) :
                 out[k] = IF (k - 1) % f = 0
                          THEN [y |-> xs[((k - 1) \div f) + 1], from |-> "input"]
                          ELSE [y |-> 0, from |-> "flush"]
           /\ (InputStep /\ prev.remaining > 0) =>
                  (call.rc = SEQ_ERR_STATE /\ st = prev)
           /\ (InputStep /\ prev.remaining = 0) =>
                  (call.rc = SEQ_OK /\ call.has_output = 1)
           /\ (FlushStep /\ f = 1) => (call.has_output = 0 /\ st = prev)

C9_Witness ==
    /\ st.active = 1 /\ st.op = SEQ_OP_UPSAMPLE /\ args.param_main = 3
    /\ Len(xs) = 2 /\ Len(out) = 6 /\ st.remaining = 0 /\ FlushStep

\* C10: on a delay(d, fill) stream with d > 0 the n-th real-input step
\* emits fill when n < d and the (n-d)-th sample otherwise; buf_head stays
\* in [0, d) and the ring holds, oldest first from buf_head, the last d
\* samples (fill where fewer than d arrived).  With d = 0 every real-input
\* step emits its own sample.
C10_DelayRing ==
    (st.active = 1 /\ st.op = SEQ_OP_DELAY) =>
        LET d == args.param_main
            n == Len(xs)
            padded == [k \in 1..(d + n) |-> IF k <= d THEN args.fill ELSE xs[k - d]]
        IN /\ Len(out) = n
           /\ \A k \in 1..n :
                 out[k] = [y |-> IF (k - 1) < d THEN args.fill ELSE xs[k - d],
                           from |-> "input"]
           /\ d > 0 =>
                 /\ st.buf /= NULL /\ st.buf \in heap
                 /\ st.buf_size = d /\ Len(st.buf_data) = d
                 /\ st.buf_head \in 0..(d - 1)
                 /\ \A j \in 0..(d - 1) :
                       st.buf_data[((st.buf_head + j) % d) + 1] = padded[n + j + 1]
           /\ d = 0 => (st.buf = NULL /\ st.buf_size = 0)

\* A delay of 2 after 3 samples: the cursor has wrapped once.
C10_Witness ==
    /\ st.active = 1 /\ st.op = SEQ_OP_DELAY /\ args.param_main = 2
    /\ args.fill = 5 /\ Len(xs) = 3 /\ st.buf_head = 1 /\ InputStep

(* ------------------------------------------------------------------ *)
\* C11: after n pushes on a window initialised with capacity C > 0,
\* count = min(n, C), start < C, and seq_window_get(w, i) for i in
\* [0, count) is the (n - count + i)-th pushed value: the window holds the
\* latest min(n, C) samples in arrival order.
C11_WindowHoldsLatest ==
    (pc = "win" /\ ~WindowInvalid(win.wa)) =>
        LET w == win.wa
            n == Len(win.pushed)
        IN /\ w.count = (IF n < w.capacity THEN n ELSE w.capacity)
           /\ w.start < w.capacity
           /\ \A i \in 0..(w.count - 1) :
                  seq_window_get(w, i) = win.pushed[(n - w.count + i) + 1]

\* A full window that has evicted samples, the cursor having wrapped.
C11_Witness ==
    /\ pc = "win"
    /\ win.wa.capacity = 2
    /\ Len(win.pushed) = MaxPush
    /\ win.pushed[1] /= win.pushed[MaxPush]
    /\ win.pushed[MaxPush - 1] /= win.pushed[MaxPush]

(* ------------------------------------------------------------------ *)
\* The samples of window w that a correlation over L samples reads are
\* all equal (zero variance).
Flat(w, L) ==
    \A i \in 0..(L - 1), j \in 0..(L - 1) :
        seq_window_get(w, w.count - L + i) = seq_window_get(w, w.count - L + j)

\* C12: seq_corr_window_norm returns an error and does not write *out
\* whenever a window holds no sample or the L aligned samples of either
\* window are all equal; it returns success only when both aligned sample
\* sets have non-zero variance.
C12_FlatWindowIsError ==
    (pc = "win" /\ win.call.fn = "corr") =>
        LET la == win.wa.count
            lb == win.wb.count
            L == IF la < lb THEN la ELSE lb
            undefined == \/ la = 0
                         \/ lb = 0
                         \/ Flat(win.wa, L)
                         \/ Flat(win.wb, L)
        IN /\ undefined => (win.call.rc /= 0 /\ ~win.call.written)
           /\ win.call.rc = 0 => ~undefined

(* ------------------------------------------------------------------ *)
\* a and b of the latest operator call, and the C indices of a sequence.
Idx(q) == 0..(Len(q) - 1)

OpDone(fn) == pc = "ops" /\ ops.fn = fn

\* y[n] of the linear convolution: the sum over every k of a[k] * b[n-k]
\* where both indices are in range (other k contribute 0).
RefConvLinear(a, b, n) ==
    fsum([i \in 1..Len(a) |->
             IF (n - (i - 1)) \in Idx(b)
             THEN fmul(a[i], b[(n - (i - 1)) + 1]) ELSE 0], Len(a))

\* C13: for non-empty a and b seq_conv_linear produces an output of
\* length len(a)+len(b)-1; for every n the k it sums over are exactly
\* those with 0 <= k < len(a) and 0 <= n-k < len(b), so y[n] is the
\* reference sum and nothing outside a or b is read;
\* conv-linear([1,2],[3,4]) = [3,10,8].
C13_ConvLinearRange ==
    (OpDone("conv_linear") /\ Len(ops.a) > 0 /\ Len(ops.b) > 0 /\ ops.mem_ok) =>
        LET a == ops.a
            b == ops.b
            ly == Len(a) + Len(b) - 1
        IN /\ ops.rc = 0
           /\ Len(ops.out) = ly
           /\ ops.reads = {<<n, k, n - k>> : n \in 0..(ly - 1),
                               k \in Idx(a)} \cap ((0..(ly - 1)) \X Idx(a) \X Idx(b))
           /\ \A n \in 0..(ly - 1) : ops.out[n + 1] = RefConvLinear(a, b, n)
           /\ (a = <<1, 2>> /\ b = <<3, 4>>) => ops.out = <<3, 10, 8>>

C13_Witness ==
    /\ OpDone("conv_linear")
    /\ ops.a = <<1, 2>>
    /\ ops.b = <<3, 4>>
    /\ ops.rc = 0
    /\ ops.out = <<3, 10, 8>>

(* ------------------------------------------------------------------ *)
\* y[n] of the cross-correlation: the sum over every k of a[k] * b[k+lag]
\* where both indices are in range.
RefCorrCross(a, b, n) ==
    LET lag == n - (Len(b) - 1)
    IN fsum([i \in 1..Len(a) |->
                IF ((i - 1) + lag) \in Idx(b)
                THEN fmul(a[i], b[((i - 1) + lag) + 1]) ELSE 0], Len(a))

\* C14: for all lengths len(a) >= 1 and len(b) >= 1 seq_corr_cross
\* produces an output of length len(a)+len(b)-1 where y[n], with
\* lag = n - (len(b)-1), is the sum of a[k]*b[k+lag] over exactly the k
\* with both indices in range, and every index used to read b lies in
\* [0, len(b)).
C14_CorrCrossInRange ==
    (OpDone("corr_cross") /\ Len(ops.a) > 0 /\ Len(ops.b) > 0 /\ ops.mem_ok) =>
        LET a == ops.a
            b == ops.b
            lr == Len(a) + Len(b) - 1
        IN /\ ops.rc = 0
           /\ Len(ops.out) = lr
           /\ \A r \in ops.reads : r[2] \in Idx(a) /\ r[3] \in Idx(b)
           /\ \A n \in 0..(lr - 1) : ops.out[n + 1] = RefCorrCross(a, b, n)

(* ------------------------------------------------------------------ *)
\* C15 as claimed: corr-cross([1,2,3],[0,1,0]) = [0,1,2,3,0], the lag-0
\* value at output index len(b)-1 = 2.
C15_CorrCrossExample_AsClaimed ==
    (OpDone("corr_cross") /\ ops.a = <<1, 2, 3>> /\ ops.b = <<0, 1, 0>>
        /\ ops.mem_ok) => ops.out = <<0, 1, 2, 3, 0>>

\* C15 amended: corr-cross([1,2,3],[0,1,0]) = [0,3,2,1,0]; the value at
\* output index len(b)-1 = 2 is the lag-0 sum of a[k]*b[k].
C15_CorrCrossExample ==
    (OpDone("corr_cross") /\ ops.a = <<1, 2, 3>> /\ ops.b = <<0, 1, 0>>
        /\ ops.mem_ok) =>
        /\ ops.rc = 0
        /\ ops.out = <<0, 3, 2, 1, 0>>
        /\ ops.out[(Len(ops.b) - 1) + 1] =
               fsum([i \in 1..3 |-> fmul(ops.a[i], ops.b[i])], 3)

C15_Witness ==
    /\ OpDone("corr_cross")
    /\ ops.a = <<1, 2, 3>>
    /\ ops.b = <<0, 1, 0>>
    /\ ops.rc = 0
    /\ Len(ops.out) = 5

(* ------------------------------------------------------------------ *)
\* C16: for a and b of equal length N > 0 seq_conv_circular produces an
\* output of length N with y[n] the sum over k in [0, N) of
\* a[k]*b[(n-k) mod N], every b index lying in [0, N);
\* conv-circular([1,0,0],[0,1,0]) = [0,1,0].
C16_ConvCircular ==
    (OpDone("conv_circular") /\ Len(ops.a) = Len(ops.b) /\ Len(ops.a) > 0
        /\ ops.mem_ok) =>
        LET a == ops.a
            b == ops.b
            N == Len(a)
        IN /\ ops.rc = 0
           /\ Len(ops.out) = N
           /\ \A n \in 0..(N - 1) :
                  ops.out[n + 1] =
                      fsum([i \in 1..N |->
                               fmul(a[i], b[((n - (i - 1)) % N) + 1])], N)
           /\ \A r \in ops.reads :
                  r[3] \in 0..(N - 1) /\ r[3] = (r[1] - r[2]) % N
           /\ (a = <<1, 0, 0>> /\ b = <<0, 1, 0>>) => ops.out = <<0, 1, 0>>

C16_Witness ==
    /\ OpDone("conv_circular")
    /\ ops.a = <<1, 2, 1>>
    /\ ops.b = <<0, 1, 0>>
    /\ ops.rc = 0
    /\ ops.out = <<1, 1, 2>>

(* ------------------------------------------------------------------ *)
\* C17: with an empty input seq_add, seq_mul, seq_conv_linear and
\* seq_corr_cross return success with an empty output; seq_conv_circular
\* returns an error without touching out when an input is empty or the
\* lengths differ.
C17_EmptyInputs ==
    /\ (pc = "ops" /\ ops.fn \in {"add", "mul", "conv_linear", "corr_cross"}
           /\ (Len(ops.a) = 0 \/ Len(ops.b) = 0)) =>
          (ops.rc = 0 /\ ops.out = << >>)
    /\ (OpDone("conv_circular")
           /\ (Len(ops.a) = 0 \/ Len(ops.b) = 0 \/ Len(ops.a) /= Len(ops.b))) =>
          (ops.rc /= 0 /\ ~ops.touched /\ ops.out = ops.out0)

\* A circular convolution of inputs of different lengths, out holding a
\* sample before the call.
C17_Witness ==
    /\ OpDone("conv_circular")
    /\ Len(ops.a) = 2
    /\ Len(ops.b) = 3
    /\ ops.out0 = <<7>>
    /\ ops.out = <<7>>

(* ------------------------------------------------------------------ *)
\* C18: seq_upsample and seq_downsample with factor 0 return the argument
\* error and leave dst unmodified; seq_stream_init for upsample or
\* downsample with main parameter 0 returns the argument error and leaves
\* the state inactive, so no downsample step runs with factor 0.
C18_ZeroFactorRejected ==
    /\ (call.fn = "batch" /\ call.result.factor = 0) =>
          (call.rc = SEQ_ERR_ARG /\ call.result.dst = call.result.dst0)
    /\ (call.fn = "init" /\ args.op \in {SEQ_OP_UPSAMPLE, SEQ_OP_DOWNSAMPLE}
           /\ args.param_main = 0) =>
          (call.rc = SEQ_ERR_ARG /\ st.active = 0)
    /\ (st.active = 1 /\ st.op = SEQ_OP_DOWNSAMPLE) => st.param_main > 0
    /\ (call.fn = "step" /\ prev.active = 1 /\ prev.op = SEQ_OP_DOWNSAMPLE) =>
          prev.param_main > 0

\* A downsample init with factor 0 made on a stream that was active.
C18_Witness ==
    /\ call.fn = "init"
    /\ args.op = SEQ_OP_DOWNSAMPLE
    /\ args.param_main = 0
    /\ ninit = 2
    /\ call.rc = SEQ_ERR_ARG

(* ------------------------------------------------------------------ *)
\* C19: seq_reverse(seq_reverse(x)) = x for every x, the empty sequence
\* and length 1 included, where seq_reverse yields y[i] = x[len-1-i]
\* with the length unchanged.
C19_ReverseTwice ==
    (OpDone("reverse") /\ ops.rc = SEQ_OK) =>
        /\ Len(ops.out) = Len(ops.a)
        /\ \A i \in Idx(ops.a) : ops.out[i + 1] = ops.a[(Len(ops.a) - 1 - i) + 1]
        /\ seq_reverse(ops.out) = ops.a

C19_Witness ==
    /\ OpDone("reverse")
    /\ ops.rc = SEQ_OK
    /\ Len(ops.a) = 3
    /\ ops.a[1] /= ops.a[3]

(* ------------------------------------------------------------------ *)
\* C20 as claimed: seq_diff(seq_cumsum(x)) = x and
\* seq_cumsum(seq_diff(x)) = x for every sequence x.
C20_DiffCumsumInverse_AsClaimed ==
    /\ (OpDone("cumsum") /\ ops.rc = SEQ_OK) => seq_diff(ops.out) = ops.a
    /\ (OpDone("diff") /\ ops.rc = SEQ_OK) => seq_cumsum(ops.out) = ops.a

\* The running sums of x, and its differences, in exact arithmetic.
RECURSIVE ExactSum(_, _)
ExactSum(x, k) == IF k = 0 THEN 0 ELSE ExactSum(x, k - 1) + x[k]

CumsumExact(x) == \A k \in 1..Len(x) : cumsum_acc(x, k) = ExactSum(x, k)

DiffExact(x) == \A k \in 2..Len(x) : fsub(x[k], x[k - 1]) = x[k] - x[k - 1]

\* C20 amended: seq_diff(seq_cumsum(x)) = x when no running sum of x is
\* rounded, and seq_cumsum(seq_diff(x)) = x when no difference of
\* neighbouring samples is rounded.
C20_DiffCumsumInverse ==
    /\ (OpDone("cumsum") /\ ops.rc = SEQ_OK /\ CumsumExact(ops.a)) =>
          seq_diff(ops.out) = ops.a
    /\ (OpDone("diff") /\ ops.rc = SEQ_OK /\ DiffExact(ops.a)) =>
          seq_cumsum(ops.out) = ops.a

C20_Witness ==
    /\ OpDone("cumsum")
    /\ ops.rc = SEQ_OK
    /\ Len(ops.a) = 3
    /\ CumsumExact(ops.a)
    /\ ops.a[3] = Pow2(MantBits) - 2

C27_ErrorStepKeepsState ==
    (pc = "api" /\ call.fn = "step" /\ call.rc /= SEQ_OK) => st = prev

\* An input step refused while flush zeros are pending.
C27_Witness ==
    /\ pc = "api"
    /\ call.fn = "step"
    /\ call.rc = SEQ_ERR_STATE
    /\ call.has_input = 1
    /\ st.active = 1
    /\ st.remaining > 0

(* ------------------------------------------------------------------ *)
\* C30: every ring buffer allocated by seq_stream_init stays referenced
\* by the state until seq_stream_dispose releases it, and after a dispose
\* no allocated buffer remains.
C30_NoBufferLeak ==
    pc = "api" =>
        /\ \A id \in heap : st.buf = id
        /\ call.fn = "dispose" => heap = {}

(* ------------------------------------------------------------------ *)
\* The Pearson coefficient of the paired samples xa[i], yb[i], i in 1..L,
\* in double arithmetic; not defined when a variance or the denominator
\* is not positive.
RefPearson(xa, yb, L) ==
    LET mx == fdiv(fsum(xa, L), L)
        my == fdiv(fsum(yb, L), L)
        dx == [i \in 1..L |-> fsub(xa[i], mx)]
        dy == [i \in 1..L |-> fsub(yb[i], my)]
        num == fsum([i \in 1..L |-> fmul(dx[i], dy[i])], L)
        sx2 == fsum([i \in 1..L |-> fmul(dx[i], dx[i])], L)
        sy2 == fsum([i \in 1..L |-> fmul(dy[i], dy[i])], L)
        denom == fsqrt(fmul(sx2, sy2))
    IN IF sx2 <= 0 \/ sy2 <= 0 \/ denom = 0
       THEN [defined |-> FALSE, rho |-> 0]
       ELSE [defined |-> TRUE, rho |-> fdiv(num, denom)]

\* The last L entries of a sequence.
LastL(q, L) == [i \in 1..L |-> q[Len(q) - L + i]]

BatchDoneOk(fn) ==
    pc = "batch" /\ ops.fn = fn /\ ~ops.alias /\ ops.mem_ok

\* C21: for every sequence x and every factor f > 0, seq_upsample yields
\* len(x) * f samples with y[i * f] = x[i] and zero elsewhere, and
\* seq_downsample of that result by f gives back x.
C21_UpsampleThenDownsample ==
    /\ (BatchDoneOk("upsample") /\ ops.param > 0) =>
          /\ ops.rc = SEQ_OK
          /\ Len(ops.dst) = Len(ops.src) * ops.param
          /\ \A n \in Idx(ops.dst) :
                 ops.dst[n + 1] = IF n % ops.param = 0
                                  THEN ops.src[(n \div ops.param) + 1]
                                  ELSE 0
    /\ (BatchDoneOk("up_down") /\ ops.param > 0) =>
          /\ ops.rc = SEQ_OK
          /\ ops.back = ops.src

(* ------------------------------------------------------------------ *)
\* C22: for every sequence x and every pad count z >= 0, seq_pad_front
\* gives len(x) + z samples, the first z being 0 and sample z + i being
\* x[i]; seq_pad_back gives len(x) + z samples, sample i being x[i] for
\* i < len(x) and the last z being 0.
C22_PadFrontPadBack ==
    /\ BatchDoneOk("pad_front") =>
          /\ ops.rc = SEQ_OK
          /\ Len(ops.dst) = Len(ops.src) + ops.param
          /\ \A n \in Idx(ops.dst) :
                 ops.dst[n + 1] = IF n < ops.param THEN 0
                                  ELSE ops.src[(n - ops.param) + 1]
    /\ BatchDoneOk("pad_back") =>
          /\ ops.rc = SEQ_OK
          /\ Len(ops.dst) = Len(ops.src) + ops.param
          /\ \A n \in Idx(ops.dst) :
                 ops.dst[n + 1] = IF n < Len(ops.src) THEN ops.src[n + 1]
                                  ELSE 0

(* ------------------------------------------------------------------ *)
\* C23: for every sequence x, every fill and every advance amount a that
\* a size_t holds, seq_advance gives len(x) samples with y[i] = x[i + a]
\* when i + a < len(x) and y[i] = fill otherwise; every a >= len(x)
\* gives an output made only of fill.
C23_AdvanceEveryAmount ==
    BatchDoneOk("advance") =>
        /\ ops.rc = SEQ_OK
        /\ Len(ops.dst) = Len(ops.src)
        /\ \A i \in Idx(ops.dst) :
               ops.dst[i + 1] = IF i + ops.param < Len(ops.src)
                                THEN ops.src[(i + ops.param) + 1]
                                ELSE ops.fill

(* ------------------------------------------------------------------ *)
\* C28: in seq_pad_front, seq_pad_back and seq_upsample every index
\* written into dst is smaller than the length allocated for dst, for
\* every source length and every pad count or factor a size_t holds.
C28_WritesInsideAllocation ==
    (pc = "batch" /\ ops.fn \in {"pad_front", "pad_back", "upsample"}) =>
        ops.oob = {}

(* ------------------------------------------------------------------ *)
\* C29: seq_delay, seq_advance, seq_reverse, seq_diff and seq_cumsum
\* called with dst being the object src give the same values as called
\* with a separate, empty dst.
C29_AliasedDstSameResult ==
    (pc = "batch" /\ ops.alias /\ ops.mem_ok) =>
        LET separate ==
                CASE ops.fn = "delay" ->
                       BatchDelay(ops.src, ops.param, ops.fill, << >>,
                                  FALSE, TRUE)
                  [] ops.fn = "advance" ->
                       BatchAdvance(ops.src, ops.param, ops.fill, << >>,
                                    FALSE, TRUE)
                  [] ops.fn = "reverse" ->
                       BatchReverse(ops.src, << >>, FALSE, TRUE)
                  [] ops.fn = "diff" ->
                       BatchDiff(ops.src, << >>, FALSE, TRUE)
                  [] ops.fn = "cumsum" ->
                       BatchCumsum(ops.src, << >>, FALSE, TRUE)
        IN /\ ops.rc = separate.rc
           /\ ops.dst = separate.dst

(* ------------------------------------------------------------------ *)
\* C25: after any sequence of signal_seq_init, signal_seq_append,
\* signal_seq_set and signal_seq_free calls, 0 <= length <= capacity and
\* data is non-null whenever capacity > 0; a fixed-length sequence has
\* length = capacity, and an append to it fails and leaves it unchanged;
\* an append to a growable sequence (whose allocation, if any, succeeds)
\* raises length by 1, keeps the earlier elements and doubles capacity
\* only when the sequence was full; get and set succeed exactly for the
\* logical indices i with 0 <= i - start < length.
C25_SignalSeqInvariants ==
    pc = "sig" =>
        LET s == sig.s
            p == sig.prev
            c == sig.call
        IN /\ 0 <= s.length
           /\ s.length <= s.capacity
           /\ s.capacity > 0 => s.data /= NULL
           /\ s.allow_expand = 0 => s.length = s.capacity
           /\ (c.fn = "append" /\ p.allow_expand = 0) =>
                  (c.rc /= 0 /\ s = p)
           /\ (c.fn = "append" /\ p.allow_expand /= 0 /\ c.mem_ok) =>
                  /\ c.rc = 0
                  /\ s.length = p.length + 1
                  /\ \A k \in 1..p.length : s.buf[k] = p.buf[k]
                  /\ s.buf[s.length] = c.value
                  /\ s.capacity = IF p.length = p.capacity
                                  THEN 2 * p.capacity ELSE p.capacity
           /\ c.fn \in {"get", "set"} =>
                  (c.rc = 0 <=> /\ 0 <= c.index - p.start
                                /\ c.index - p.start < p.length)

====
